---- MODULE Spec2Model ----
(***************************************************************************)
(* rasm16: the assembler entry point Raw (package assemble) and the stages *)
(* it runs, as a state machine.                                            *)
(*                                                                         *)
(* Text is modelled at character level: a Go string is a sequence of       *)
(* one-character strings, a []string a sequence of such sequences.  Every  *)
(* stage of Raw is an operator computing what the Go function computes,    *)
(* and an action applying it to the state of the run in progress.          *)
(* The package-level map defaultConsts is a variable: it outlives a call   *)
(* of Raw.                                                                 *)
(***************************************************************************)
EXTENDS Integers, Sequences, FiniteSets, TLC

VARIABLES
    defaultConsts,    \* package-level map of preprocessor constants
    inLines,          \* argument rawSrcLines of Raw, as passed by the caller
    srcName,          \* argument srcName of Raw
    programOffset,    \* argument programOffset of Raw (uint16)
    incFiles,         \* the include files on disk: file name -> raw lines
    pc,               \* the stage of Raw to run next; "idle" between calls
    rawSrcLines,      \* local rawSrcLines of Raw
    srcLines,         \* local srcLines of Raw (structured source)
    labelAddresses,   \* local labelAddresses of Raw
    returned,         \* what each finished call of Raw returned, in call order
    nCalls            \* how many times the host calls Raw in this process

vars == <<defaultConsts, inLines, srcName, programOffset, incFiles, pc,
          rawSrcLines, srcLines, labelAddresses, returned, nCalls>>

\* Bounds of the model.
MaxLines == 3
MaxRuns == 2
MaxArityLines == 2
MaxAliasLines == 2
MaxRepeat == 3
MaxDataLines == 2
MaxOpcodeLines == 1

----------------------------------------------------------------------------
(* Characters                                                              *)

Digits == {"0","1","2","3","4","5","6","7","8","9"}
UpperSeq == <<"A","B","C","D","E","F","G","H","I","J","K","L","M",
              "N","O","P","Q","R","S","T","U","V","W","X","Y","Z">>
LowerSeq == <<"a","b","c","d","e","f","g","h","i","j","k","l","m",
              "n","o","p","q","r","s","t","u","v","w","x","y","z">>
HexSeq == <<"0","1","2","3","4","5","6","7","8","9","A","B","C","D","E","F">>
\* the printable ASCII characters 32..95 and 97..126, in code order (96, the
\* back quote, cannot be written in a string of this notation)
AsciiLow == <<
    " ","!","\"","#","$","%","&","'","(",")","*","+",",","-",".","/",
    "0","1","2","3","4","5","6","7","8","9",":",";","<","=",">","?",
    "@","A","B","C","D","E","F","G","H","I","J","K","L","M","N","O",
    "P","Q","R","S","T","U","V","W","X","Y","Z","[","\\","]","^","_">>
AsciiHigh == <<
    "a","b","c","d","e","f","g","h","i","j","k","l","m","n","o",
    "p","q","r","s","t","u","v","w","x","y","z","{","|","}","~">>

Range(s) == {s[i] : i \in 1..Len(s)}
Min(S) == CHOOSE x \in S : \A y \in S : x <= y
Max(S) == CHOOSE x \in S : \A y \in S : x >= y

\* [0-9A-Fa-f]
HexChars == Digits \cup {"A","B","C","D","E","F","a","b","c","d","e","f"}
\* \w
WordChars == Digits \cup Range(UpperSeq) \cup Range(LowerSeq) \cup {"_"}
\* [\w.]
LabelChars == WordChars \cup {"."}
\* [\s\p{Zs}] and unicode.IsSpace, over the characters a line can hold
SpaceChars == {" ", "\t"}

\* strings.ToUpper
ToUpperChar(c) ==
    IF \E i \in 1..Len(LowerSeq) : LowerSeq[i] = c
    THEN UpperSeq[CHOOSE i \in 1..Len(LowerSeq) : LowerSeq[i] = c]
    ELSE c
ToUpper(s) == [i \in 1..Len(s) |-> ToUpperChar(s[i])]

\* the byte of an ASCII character
Ord(c) ==
    IF c = "\t" THEN 9
    ELSE IF \E i \in 1..Len(AsciiLow) : AsciiLow[i] = c
    THEN 31 + (CHOOSE i \in 1..Len(AsciiLow) : AsciiLow[i] = c)
    ELSE 96 + (CHOOSE i \in 1..Len(AsciiHigh) : AsciiHigh[i] = c)

----------------------------------------------------------------------------
(* Package strings, strconv, fmt                                           *)

FirstIndex(s, c) ==
    LET I == {i \in 1..Len(s) : s[i] = c} IN IF I = {} THEN 0 ELSE Min(I)
LastIndex(s, c) ==
    LET I == {i \in 1..Len(s) : s[i] = c} IN IF I = {} THEN 0 ELSE Max(I)

\* last index j >= i-1 with s[i..j] all in C
RunEnd(s, i, C) ==
    LET bad == {j \in i..Len(s) : s[j] \notin C}
    IN IF bad = {} THEN Len(s) ELSE Min(bad) - 1

\* strings.Index, from position `from` on; 0 when absent
IndexFrom(s, sub, from) ==
    LET I == {i \in from..(Len(s) - Len(sub) + 1) :
                 \A k \in 1..Len(sub) : s[i + k - 1] = sub[k]}
    IN IF I = {} THEN 0 ELSE Min(I)

Contains(s, sub) == IndexFrom(s, sub, 1) > 0

\* strings.TrimSpace
TrimSpace(s) ==
    LET ns == {i \in 1..Len(s) : s[i] \notin SpaceChars}
    IN IF ns = {} THEN <<>> ELSE SubSeq(s, Min(ns), Max(ns))

\* strings.SplitN(s, sep, 2) for a one-character sep
SplitN2(s, sep) ==
    LET i == FirstIndex(s, sep)
    IN IF i = 0 THEN <<s>>
       ELSE <<SubSeq(s, 1, i - 1), SubSeq(s, i + 1, Len(s))>>

\* strings.Split(s, sep) for a one-character sep
RECURSIVE Split(_, _)
Split(s, sep) ==
    LET i == FirstIndex(s, sep)
    IN IF i = 0 THEN <<s>>
       ELSE <<SubSeq(s, 1, i - 1)>> \o Split(SubSeq(s, i + 1, Len(s)), sep)

\* strings.Join
RECURSIVE Join(_, _)
Join(parts, sep) ==
    IF parts = <<>> THEN <<>>
    ELSE IF Len(parts) = 1 THEN parts[1]
    ELSE parts[1] \o sep \o Join(Tail(parts), sep)

\* strings.Replace(s, old, new, n) for n = 1 and n = -1 (all); an empty old
\* matches before every character and at the end
RECURSIVE InsertEverywhere(_, _)
InsertEverywhere(s, new) ==
    IF s = <<>> THEN new
    ELSE new \o <<Head(s)>> \o InsertEverywhere(Tail(s), new)

RECURSIVE ReplaceAll(_, _, _)
ReplaceAll(s, old, new) ==
    IF old = <<>> THEN InsertEverywhere(s, new)
    ELSE LET i == IndexFrom(s, old, 1)
         IN IF i = 0 THEN s
            ELSE SubSeq(s, 1, i - 1) \o new
                 \o ReplaceAll(SubSeq(s, i + Len(old), Len(s)), old, new)

ReplaceFirst(s, old, new) ==
    LET i == IndexFrom(s, old, 1)
    IN IF i = 0 THEN s
       ELSE SubSeq(s, 1, i - 1) \o new \o SubSeq(s, i + Len(old), Len(s))

HexDigitVal(c) == (CHOOSE i \in 1..16 : HexSeq[i] = ToUpperChar(c)) - 1

RECURSIVE HexVal(_)
HexVal(s) ==
    IF s = <<>> THEN 0
    ELSE 16 * HexVal(SubSeq(s, 1, Len(s) - 1)) + HexDigitVal(s[Len(s)])

\* strconv.ParseUint(s, 16, bitSize) with the error dropped: 0 on a syntax
\* error, the largest value of the size on a range error
ParseUint16(s, bitSize) ==
    IF s = <<>> \/ \E i \in 1..Len(s) : s[i] \notin HexChars THEN 0
    ELSE IF HexVal(s) >= 2 ^ bitSize THEN 2 ^ bitSize - 1
    ELSE HexVal(s)

RECURSIVE DecVal(_)
DecVal(s) ==
    IF s = <<>> THEN 0
    ELSE 10 * DecVal(SubSeq(s, 1, Len(s) - 1))
         + ((CHOOSE i \in 1..10 : HexSeq[i] = s[Len(s)]) - 1)

\* strconv.Atoi: an optional sign, then one or more decimal digits
Atoi(s) ==
    LET signed == s # <<>> /\ s[1] \in {"+", "-"}
        digits == IF signed THEN Tail(s) ELSE s
    IN IF digits = <<>> \/ \E i \in 1..Len(digits) : digits[i] \notin Digits
       THEN [ok |-> FALSE, val |-> 0]
       ELSE [ok |-> TRUE,
             val |-> IF signed /\ s[1] = "-" THEN 0 - DecVal(digits)
                     ELSE DecVal(digits)]

\* fmt.Sprintf("%x", n), upper-cased
RECURSIVE FmtX(_)
FmtX(n) ==
    IF n < 16 THEN <<HexSeq[n + 1]>>
    ELSE FmtX(n \div 16) \o <<HexSeq[(n % 16) + 1]>>

\* strings.ToUpper(fmt.Sprintf("%04x", n))
RECURSIVE PadLeft(_, _)
PadLeft(s, width) == IF Len(s) >= width THEN s ELSE PadLeft(<<"0">> \o s, width)
Fmt04X(n) == PadLeft(FmtX(n), 4)

----------------------------------------------------------------------------
(* Tables                                                                  *)

maxAddressSpace == 65456 - 2 * 128

srcLabelMinLen == 5

invalidOp == 0
addressOp == 1
literalOp == 2
pointerOp == 3

data8BitDirective == <<"$","8">>
data16BitDirective == <<"$","1","6">>

IncExt == <<".","_","r","a","s","m">>

binMagicHeader == <<18, 49, 28, 22>>

mnemonicAliases ==
    <<"C","O">> :> <<"C","O","1","6">> @@
    <<"A","D">> :> <<"A","D","1","6">> @@
    <<"S","U">> :> <<"S","U","1","6">> @@
    <<"M","U">> :> <<"M","U","1","6">> @@
    <<"D","V">> :> <<"D","V","1","6">> @@
    <<"N","D">> :> <<"N","D","1","6">> @@
    <<"O","R">> :> <<"O","R","1","6">> @@
    <<"X","R">> :> <<"X","R","1","6">> @@
    <<"S","L">> :> <<"S","L","1","6">> @@
    <<"S","R">> :> <<"S","R","1","6">> @@
    <<"C","M">> :> <<"C","M","1","6">> @@
    <<"$">> :> <<"$","1","6">>

\* the table with the value 14 (hex), which no row uses, for SR16
mnemonicsSR16Apart ==
    <<"N","O">> :> [opcode |-> 0, numOps |-> 0, instrLength |-> 1] @@
    <<"C","O","8">> :> [opcode |-> 1, numOps |-> 2, instrLength |-> 5] @@
    <<"C","O","1","6">> :> [opcode |-> 2, numOps |-> 2, instrLength |-> 5] @@
    <<"A","D","8">> :> [opcode |-> 3, numOps |-> 2, instrLength |-> 5] @@
    <<"A","D","1","6">> :> [opcode |-> 4, numOps |-> 2, instrLength |-> 5] @@
    <<"S","U","8">> :> [opcode |-> 5, numOps |-> 2, instrLength |-> 5] @@
    <<"S","U","1","6">> :> [opcode |-> 6, numOps |-> 2, instrLength |-> 5] @@
    <<"M","U","8">> :> [opcode |-> 7, numOps |-> 2, instrLength |-> 5] @@
    <<"M","U","1","6">> :> [opcode |-> 8, numOps |-> 2, instrLength |-> 5] @@
    <<"D","V","8">> :> [opcode |-> 9, numOps |-> 2, instrLength |-> 5] @@
    <<"D","V","1","6">> :> [opcode |-> 10, numOps |-> 2, instrLength |-> 5] @@
    <<"N","D","8">> :> [opcode |-> 11, numOps |-> 2, instrLength |-> 5] @@
    <<"N","D","1","6">> :> [opcode |-> 12, numOps |-> 2, instrLength |-> 5] @@
    <<"O","R","8">> :> [opcode |-> 13, numOps |-> 2, instrLength |-> 5] @@
    <<"O","R","1","6">> :> [opcode |-> 14, numOps |-> 2, instrLength |-> 5] @@
    <<"X","R","8">> :> [opcode |-> 15, numOps |-> 2, instrLength |-> 5] @@
    <<"X","R","1","6">> :> [opcode |-> 16, numOps |-> 2, instrLength |-> 5] @@
    <<"S","L","8">> :> [opcode |-> 17, numOps |-> 2, instrLength |-> 5] @@
    <<"S","L","1","6">> :> [opcode |-> 18, numOps |-> 2, instrLength |-> 5] @@
    <<"S","R","8">> :> [opcode |-> 19, numOps |-> 2, instrLength |-> 5] @@
    <<"S","R","1","6">> :> [opcode |-> 20, numOps |-> 2, instrLength |-> 5] @@
    <<"C","M","8">> :> [opcode |-> 21, numOps |-> 2, instrLength |-> 5] @@
    <<"C","M","1","6">> :> [opcode |-> 22, numOps |-> 2, instrLength |-> 5] @@
    <<"E","Q">> :> [opcode |-> 23, numOps |-> 1, instrLength |-> 3] @@
    <<"N","E">> :> [opcode |-> 24, numOps |-> 1, instrLength |-> 3] @@
    <<"L","T">> :> [opcode |-> 25, numOps |-> 1, instrLength |-> 3] @@
    <<"G","T">> :> [opcode |-> 26, numOps |-> 1, instrLength |-> 3] @@
    <<"E","L">> :> [opcode |-> 27, numOps |-> 1, instrLength |-> 3] @@
    <<"E","G">> :> [opcode |-> 28, numOps |-> 1, instrLength |-> 3] @@
    <<"J","M">> :> [opcode |-> 29, numOps |-> 0, instrLength |-> 1] @@
    <<"J","S">> :> [opcode |-> 30, numOps |-> 2, instrLength |-> 5] @@
    <<"R","T">> :> [opcode |-> 31, numOps |-> 1, instrLength |-> 3] @@
    <<"$","8">> :> [opcode |-> 0, numOps |-> 0, instrLength |-> 0] @@
    <<"$","1","6">> :> [opcode |-> 0, numOps |-> 0, instrLength |-> 0]

mnemonics ==
    <<"N","O">> :> [opcode |-> 0, numOps |-> 0, instrLength |-> 1] @@
    <<"C","O","8">> :> [opcode |-> 1, numOps |-> 2, instrLength |-> 5] @@
    <<"C","O","1","6">> :> [opcode |-> 2, numOps |-> 2, instrLength |-> 5] @@
    <<"A","D","8">> :> [opcode |-> 3, numOps |-> 2, instrLength |-> 5] @@
    <<"A","D","1","6">> :> [opcode |-> 4, numOps |-> 2, instrLength |-> 5] @@
    <<"S","U","8">> :> [opcode |-> 5, numOps |-> 2, instrLength |-> 5] @@
    <<"S","U","1","6">> :> [opcode |-> 6, numOps |-> 2, instrLength |-> 5] @@
    <<"M","U","8">> :> [opcode |-> 7, numOps |-> 2, instrLength |-> 5] @@
    <<"M","U","1","6">> :> [opcode |-> 8, numOps |-> 2, instrLength |-> 5] @@
    <<"D","V","8">> :> [opcode |-> 9, numOps |-> 2, instrLength |-> 5] @@
    <<"D","V","1","6">> :> [opcode |-> 10, numOps |-> 2, instrLength |-> 5] @@
    <<"N","D","8">> :> [opcode |-> 11, numOps |-> 2, instrLength |-> 5] @@
    <<"N","D","1","6">> :> [opcode |-> 12, numOps |-> 2, instrLength |-> 5] @@
    <<"O","R","8">> :> [opcode |-> 13, numOps |-> 2, instrLength |-> 5] @@
    <<"O","R","1","6">> :> [opcode |-> 14, numOps |-> 2, instrLength |-> 5] @@
    <<"X","R","8">> :> [opcode |-> 15, numOps |-> 2, instrLength |-> 5] @@
    <<"X","R","1","6">> :> [opcode |-> 16, numOps |-> 2, instrLength |-> 5] @@
    <<"S","L","8">> :> [opcode |-> 17, numOps |-> 2, instrLength |-> 5] @@
    <<"S","L","1","6">> :> [opcode |-> 18, numOps |-> 2, instrLength |-> 5] @@
    <<"S","R","8">> :> [opcode |-> 19, numOps |-> 2, instrLength |-> 5] @@
    <<"S","R","1","6">> :> [opcode |-> 21, numOps |-> 2, instrLength |-> 5] @@
    <<"C","M","8">> :> [opcode |-> 21, numOps |-> 2, instrLength |-> 5] @@
    <<"C","M","1","6">> :> [opcode |-> 22, numOps |-> 2, instrLength |-> 5] @@
    <<"E","Q">> :> [opcode |-> 23, numOps |-> 1, instrLength |-> 3] @@
    <<"N","E">> :> [opcode |-> 24, numOps |-> 1, instrLength |-> 3] @@
    <<"L","T">> :> [opcode |-> 25, numOps |-> 1, instrLength |-> 3] @@
    <<"G","T">> :> [opcode |-> 26, numOps |-> 1, instrLength |-> 3] @@
    <<"E","L">> :> [opcode |-> 27, numOps |-> 1, instrLength |-> 3] @@
    <<"E","G">> :> [opcode |-> 28, numOps |-> 1, instrLength |-> 3] @@
    <<"J","M">> :> [opcode |-> 29, numOps |-> 0, instrLength |-> 1] @@
    <<"J","S">> :> [opcode |-> 30, numOps |-> 2, instrLength |-> 5] @@
    <<"R","T">> :> [opcode |-> 31, numOps |-> 1, instrLength |-> 3] @@
    <<"$","8">> :> [opcode |-> 0, numOps |-> 0, instrLength |-> 0] @@
    <<"$","1","6">> :> [opcode |-> 0, numOps |-> 0, instrLength |-> 0]

\* the initial contents of the package-level map
builtinConsts ==
    <<"[","S","P","]">> :> <<"F","F","B","0">> @@
    <<"[","I","O","]">> :> <<"F","F","B","2">> @@
    <<"[","P","C","]">> :> <<"F","F","B","4">> @@
    <<"[","S","T","]">> :> <<"F","F","B","6">> @@
    <<"[","U","N","0","]">> :> <<"F","F","B","8">> @@
    <<"[","U","N","1","]">> :> <<"F","F","B","A">> @@
    <<"[","U","N","2","]">> :> <<"F","F","B","C">> @@
    <<"[","U","N","3","]">> :> <<"F","F","B","E">> @@
    <<"[","I","R","Q","0","]">> :> <<"F","F","C","0">> @@
    <<"[","I","R","Q","1","]">> :> <<"F","F","C","2">> @@
    <<"[","I","R","Q","2","]">> :> <<"F","F","C","4">> @@
    <<"[","I","R","Q","3","]">> :> <<"F","F","C","6">> @@
    <<"[","I","R","Q","4","]">> :> <<"F","F","C","8">> @@
    <<"[","I","R","Q","5","]">> :> <<"F","F","C","A">> @@
    <<"[","I","R","Q","6","]">> :> <<"F","F","C","C">> @@
    <<"[","I","R","Q","7","]">> :> <<"F","F","C","E">> @@
    <<"[","I","N","0","]">> :> <<"F","F","D","0">> @@
    <<"[","I","N","1","]">> :> <<"F","F","D","2">> @@
    <<"[","I","N","2","]">> :> <<"F","F","D","4">> @@
    <<"[","I","N","3","]">> :> <<"F","F","D","6">> @@
    <<"[","I","N","4","]">> :> <<"F","F","D","8">> @@
    <<"[","I","N","5","]">> :> <<"F","F","D","A">> @@
    <<"[","I","N","6","]">> :> <<"F","F","D","C">> @@
    <<"[","I","N","7","]">> :> <<"F","F","D","E">> @@
    <<"[","O","U","T","0","]">> :> <<"F","F","E","0">> @@
    <<"[","O","U","T","1","]">> :> <<"F","F","E","2">> @@
    <<"[","O","U","T","2","]">> :> <<"F","F","E","4">> @@
    <<"[","O","U","T","3","]">> :> <<"F","F","E","6">> @@
    <<"[","O","U","T","4","]">> :> <<"F","F","E","8">> @@
    <<"[","O","U","T","5","]">> :> <<"F","F","E","A">> @@
    <<"[","O","U","T","6","]">> :> <<"F","F","E","C">> @@
    <<"[","O","U","T","7","]">> :> <<"F","F","E","E">> @@
    <<"[","G","P","0","]">> :> <<"F","F","F","0">> @@
    <<"[","G","P","0","L","]">> :> <<"F","F","F","1">> @@
    <<"[","G","P","1","]">> :> <<"F","F","F","2">> @@
    <<"[","G","P","1","L","]">> :> <<"F","F","F","3">> @@
    <<"[","G","P","2","]">> :> <<"F","F","F","4">> @@
    <<"[","G","P","2","L","]">> :> <<"F","F","F","5">> @@
    <<"[","G","P","3","]">> :> <<"F","F","F","6">> @@
    <<"[","G","P","3","L","]">> :> <<"F","F","F","7">> @@
    <<"[","G","P","4","]">> :> <<"F","F","F","8">> @@
    <<"[","G","P","4","L","]">> :> <<"F","F","F","9">> @@
    <<"[","G","P","5","]">> :> <<"F","F","F","A">> @@
    <<"[","G","P","5","L","]">> :> <<"F","F","F","B">> @@
    <<"[","G","P","6","]">> :> <<"F","F","F","C">> @@
    <<"[","G","P","6","L","]">> :> <<"F","F","F","D">> @@
    <<"[","G","P","7","]">> :> <<"F","F","F","E">> @@
    <<"[","G","P","7","L","]">> :> <<"F","F","F","F">> @@
    <<"[","T","R","U","E","]">> :> <<"0","0","0","1">> @@
    <<"[","F","A","L","S","E","]">> :> <<"F","F","F","F">> @@
    <<"[","N","U","L","L","]">> :> <<"0","0","0","0">>

\* An error value: the message's kind, the 1-based line number it starts
\* with (0 when the message carries none), the text it quotes and the
\* number it names (bit width or operand count; 0 when none).
NoErr == [kind |-> "none", line |-> 0, text |-> <<>>, n |-> 0]
Err(kind, line, text, n) == [kind |-> kind, line |-> line, text |-> text, n |-> n]


----------------------------------------------------------------------------
(* Preprocessing of raw source lines                                       *)

constStartToken == "["
incToken == "<"
dataLineToken == "$"
namespaceDlm == "."

\* regexp `\[.+\]`, FindString: leftmost "[", then as far as the last "]",
\* with at least one character between them; empty when there is no match
reConstName(s) ==
    LET a == FirstIndex(s, "[")
        b == LastIndex(s, "]")
    IN IF a > 0 /\ b >= a + 2 THEN SubSeq(s, a, b) ELSE <<>>

\* regexp `\].+`, FindString: leftmost "]" that has a character after it,
\* then the rest of the line
reConstValue(s) ==
    LET a == FirstIndex(s, "]")
    IN IF a > 0 /\ a < Len(s) THEN SubSeq(s, a, Len(s)) ELSE <<>>

\* regexp "#.*" replaced by ""
StripComment(s) ==
    LET i == FirstIndex(s, "#")
    IN IF i = 0 THEN s ELSE SubSeq(s, 1, i - 1)

\* regexp `[\s\p{Zs}]{2,}` replaced by " ": only runs of two or more
RECURSIVE CollapseFrom(_, _)
CollapseFrom(s, i) ==
    IF i > Len(s) THEN <<>>
    ELSE IF s[i] \in SpaceChars /\ i < Len(s) /\ s[i + 1] \in SpaceChars
    THEN <<" ">> \o CollapseFrom(s, RunEnd(s, i, SpaceChars) + 1)
    ELSE <<s[i]>> \o CollapseFrom(s, i + 1)

cleanLine(srcLine) == TrimSpace(CollapseFrom(StripComment(srcLine), 1))

cleanSrc(srcLns) == [i \in 1..Len(srcLns) |-> cleanLine(srcLns[i])]

\* getConsts, from line lineNum (1-based) on.  consts is the package-level
\* map itself (consts := defaultConsts copies the map header, not the
\* entries), so what is stored here stays stored after the call, also when
\* the call fails.  constValue[1:] of an empty match is a slice bounds
\* run-time panic.
RECURSIVE getConstsFrom(_, _, _)
getConstsFrom(srcLns, lineNum, consts) ==
    IF lineNum > Len(srcLns)
    THEN [status |-> "ok", consts |-> consts, err |-> NoErr]
    ELSE LET srcLine == srcLns[lineNum] IN
         IF srcLine # <<>> /\ srcLine[1] = "["
         THEN LET constName == reConstName(srcLine)
                  found == reConstValue(srcLine)
              IN IF constName \in DOMAIN consts
                 THEN [status |-> "error", consts |-> consts,
                       err |-> Err("DuplicateConstant", lineNum, constName, 0)]
                 ELSE IF found = <<>>
                 THEN [status |-> "panic", consts |-> consts, err |-> NoErr]
                 ELSE getConstsFrom(srcLns, lineNum + 1,
                          (constName :> TrimSpace(Tail(found))) @@ consts)
         ELSE getConstsFrom(srcLns, lineNum + 1, consts)

getConsts(srcLns, consts) == getConstsFrom(srcLns, 1, consts)

\* the loop over the constant table in expandConsts: every name replaced
\* by its value, one name after the other.  Go ranges over a map in an
\* unspecified order; the order taken here puts a name the line holds
\* before the names it does not hold (replacing those changes nothing),
\* which is one of the orders the loop can take.  It gives the result of
\* every order when no value holds a "[" and no name is part of another
\* (true of the built-in table and of the programs drawn below).
RECURSIVE ApplyConsts(_, _, _)
ApplyConsts(line, names, consts) ==
    LET present == {x \in names : Contains(line, x)} IN
    IF present = {} THEN line
    ELSE LET constName == CHOOSE x \in present : TRUE
         IN ApplyConsts(ReplaceAll(line, constName, consts[constName]),
                        names \ {constName}, consts)

\* every name of the table is empty or starts with "[": a line without
\* "[" is left as it is by all of them
substituteConsts(srcLine, consts) ==
    IF "[" \notin Range(srcLine) /\ <<>> \notin DOMAIN consts THEN srcLine
    ELSE ApplyConsts(srcLine, DOMAIN consts, consts)

\* expandLine that substitutes in a definition line instead of emptying it
expandLineKeepingDefinitions(srcLine, consts) ==
    IF srcLine = <<>> THEN <<>> ELSE substituteConsts(srcLine, consts)

expandLine(srcLine, consts) ==
    IF srcLine = <<>> THEN <<>>
    ELSE IF srcLine[1] # constStartToken THEN substituteConsts(srcLine, consts)
    ELSE <<>>

\* expandConsts: [status, lines, consts, err]; consts is the package-level
\* map as the call leaves it
expandConsts(srcLns, consts) ==
    LET got == getConsts(srcLns, consts) IN
    IF got.status # "ok"
    THEN [status |-> got.status, lines |-> <<>>, consts |-> got.consts,
          err |-> got.err]
    ELSE LET expanded == [i \in 1..Len(srcLns) |-> expandLine(srcLns[i], got.consts)]
             unmatched == {i \in 1..Len(srcLns) :
                             /\ srcLns[i] # <<>>
                             /\ srcLns[i][1] # constStartToken
                             /\ reConstName(expanded[i]) # <<>>}
         IN IF unmatched # {}
            THEN [status |-> "error", lines |-> <<>>, consts |-> got.consts,
                  err |-> Err("UndefinedConstant", Min(unmatched),
                              reConstName(expanded[Min(unmatched)]), 0)]
            ELSE [status |-> "ok", lines |-> expanded, consts |-> got.consts,
                  err |-> NoErr]

\* regexp `([\w.]{5,})`, ReplaceAllStringFunc: every maximal run of five or
\* more label characters, prefixed unless it holds a "."
RECURSIVE namespaceFrom(_, _, _)
namespaceFrom(s, i, namespace) ==
    IF i > Len(s) THEN <<>>
    ELSE IF s[i] \in LabelChars
    THEN LET e == RunEnd(s, i, LabelChars)
             tok == SubSeq(s, i, e)
         IN (IF Len(tok) >= 5 /\ namespaceDlm \notin Range(tok)
             THEN namespace \o <<namespaceDlm>> \o tok
             ELSE tok) \o namespaceFrom(s, e + 1, namespace)
    ELSE <<s[i]>> \o namespaceFrom(s, i + 1, namespace)

\* addSrcLabelNamespaces with the whole file name as the namespace
addSrcLabelNamespacesWholeName(srcLns, name) ==
    [i \in 1..Len(srcLns) |->
          IF /\ srcLns[i] # <<>>
             /\ srcLns[i][1] # incToken
             /\ srcLns[i][1] # dataLineToken
          THEN namespaceFrom(srcLns[i], 1, name)
          ELSE srcLns[i]]

addSrcLabelNamespaces(srcLns, name) ==
    LET namespace == SplitN2(name, namespaceDlm)[1]
    IN [i \in 1..Len(srcLns) |->
          IF /\ srcLns[i] # <<>>
             /\ srcLns[i][1] # incToken
             /\ srcLns[i][1] # dataLineToken
          THEN namespaceFrom(srcLns[i], 1, namespace)
          ELSE srcLns[i]]

hasInclude(srcLns) ==
    \E i \in 1..Len(srcLns) : srcLns[i] # <<>> /\ srcLns[i][1] = incToken

\* addIncludes, from line i on, with the lines gathered so far; files is
\* what file.ReadSrc finds on disk
RECURSIVE addIncludesFrom(_, _, _, _, _)
addIncludesFrom(srcLns, i, allSrcLines, files, consts) ==
    IF i > Len(srcLns)
    THEN [status |-> "ok", lines |-> allSrcLines, consts |-> consts, err |-> NoErr]
    ELSE IF srcLns[i] # <<>> /\ srcLns[i][1] = incToken
    THEN LET incName == TrimSpace(Tail(srcLns[i])) \o IncExt IN
         IF incName \notin DOMAIN files
         THEN [status |-> "error", lines |-> <<>>, consts |-> consts,
               err |-> Err("IO", 0, incName, 0)]
         ELSE LET exp == expandConsts(cleanSrc(files[incName]), consts) IN
              IF exp.status # "ok"
              THEN [status |-> exp.status, lines |-> <<>>,
                    consts |-> exp.consts, err |-> exp.err]
              ELSE IF hasInclude(exp.lines)
              THEN [status |-> "error", lines |-> <<>>, consts |-> exp.consts,
                    err |-> Err("NestedInclude", 0, incName, 0)]
              ELSE addIncludesFrom(srcLns, i + 1,
                       allSrcLines \o addSrcLabelNamespaces(exp.lines, incName),
                       files, exp.consts)
    ELSE addIncludesFrom(srcLns, i + 1, Append(allSrcLines, srcLns[i]),
                         files, consts)

addIncludes(srcLns, files, consts) == addIncludesFrom(srcLns, 1, <<>>, files, consts)

\* regexp `^[\w.]+$` and the minimum length
isSrcLabel(srcLine) ==
    /\ Len(srcLine) >= srcLabelMinLen
    /\ \A i \in 1..Len(srcLine) : srcLine[i] \in LabelChars

\* hasDupeSrcLabels that compares a label line with the line before it only
hasAdjacentDupeSrcLabels(srcLns) ==
    LET dupes == {j \in 2..Len(srcLns) :
                    /\ srcLns[j] # <<>>
                    /\ isSrcLabel(srcLns[j])
                    /\ srcLns[j - 1] = srcLns[j]}
    IN IF dupes = {} THEN 0 ELSE Min(dupes)

\* hasDupeSrcLabels: the first label line (1-based) that repeats an earlier
\* label line; 0 when there is none
hasDupeSrcLabels(srcLns) ==
    LET dupes == {j \in 1..Len(srcLns) :
                    /\ srcLns[j] # <<>>
                    /\ isSrcLabel(srcLns[j])
                    /\ \E i \in 1..(j - 1) : srcLns[i] = srcLns[j]}
    IN IF dupes = {} THEN 0 ELSE Min(dupes)


----------------------------------------------------------------------------
(* Structured source                                                       *)

mnemonicOpDlm == " "
opDlm == ","
dataDlm == ","
srcStringToken == "\""
nullRepeatStartToken == "("
nullRepeatEndToken == ")"

\* getSrcLabel: the nearest non-empty line above line lineNum (1-based), if
\* it is a label
RECURSIVE getSrcLabel(_, _)
getSrcLabel(srcLns, lineNum) ==
    IF lineNum <= 1 THEN <<>>
    ELSE IF srcLns[lineNum - 1] # <<>>
    THEN (IF isSrcLabel(srcLns[lineNum - 1]) THEN srcLns[lineNum - 1] ELSE <<>>)
    ELSE getSrcLabel(srcLns, lineNum - 1)

splitSrcCodeLine(srcLine) ==
    LET splitLine == SplitN2(srcLine, mnemonicOpDlm) IN
    IF Len(splitLine) > 1
    THEN LET splitOps == SplitN2(splitLine[2], opDlm)
         IN IF Len(splitOps) > 1
            THEN <<splitLine[1], splitOps[1], splitOps[2]>>
            ELSE <<splitLine[1], splitOps[1], <<>> >>
    ELSE <<splitLine[1], <<>>, <<>> >>

isSrcDataLine(srcLine) == srcLine # <<>> /\ srcLine[1] = dataLineToken

splitSrcDataLine(srcLine) ==
    LET splitLine == SplitN2(srcLine, mnemonicOpDlm)
    IN IF Len(splitLine) > 1 THEN <<splitLine[1], splitLine[2]>>
       ELSE <<splitLine[1], <<>> >>

getOpType(op) ==
    IF op # <<>>
    THEN (IF op[1] = "$" THEN literalOp
          ELSE IF op[1] = "*" THEN pointerOp
          ELSE addressOp)
    ELSE invalidOp

splitOp(op) ==
    LET cleanOp == TrimSpace(op)
        type == getOpType(cleanOp)
    IN IF type = literalOp \/ type = pointerOp
       THEN [type |-> type, val |-> Tail(cleanOp)]
       ELSE [type |-> type, val |-> cleanOp]

\* the srcLine built for line lineNum (1-based; the field lineNum is Go's
\* 0-based index)
structLine(srcLns, lineNum) ==
    LET s == srcLns[lineNum]
        d == splitSrcDataLine(s)
        c == splitSrcCodeLine(s)
        o1 == splitOp(c[2])
        o2 == splitOp(c[3])
        isData == isSrcDataLine(s)
    IN [lineNum |-> lineNum - 1,
        label |-> getSrcLabel(srcLns, lineNum),
        address |-> 0,
        mnemonic |-> IF isData THEN d[1] ELSE ToUpper(c[1]),
        op1Type |-> IF isData THEN invalidOp ELSE o1.type,
        op1 |-> IF isData THEN <<>> ELSE o1.val,
        op2Type |-> IF isData THEN invalidOp ELSE o2.type,
        op2 |-> IF isData THEN <<>> ELSE o2.val,
        data |-> IF isData THEN d[2] ELSE <<>>,
        bin |-> <<>>]

RECURSIVE buildStructFrom(_, _)
buildStructFrom(srcLns, lineNum) ==
    IF lineNum > Len(srcLns) THEN <<>>
    ELSE IF srcLns[lineNum] # <<>> /\ ~isSrcLabel(srcLns[lineNum])
    THEN <<structLine(srcLns, lineNum)>> \o buildStructFrom(srcLns, lineNum + 1)
    ELSE buildStructFrom(srcLns, lineNum + 1)

buildStructSrc(srcLns) == buildStructFrom(srcLns, 1)

----------------------------------------------------------------------------
(* Processing of structured source                                         *)

\* unaliasMnemonic that leaves the data alias "$" as it is
unaliasInstrMnemonic(m) ==
    IF m \in DOMAIN mnemonicAliases /\ m # <<dataLineToken>>
    THEN mnemonicAliases[m] ELSE m

unaliasMnemonic(m) ==
    IF m \in DOMAIN mnemonicAliases THEN mnemonicAliases[m] ELSE m

unaliasMnemonics(lns) ==
    [i \in 1..Len(lns) |->
        [lns[i] EXCEPT !.mnemonic = unaliasMnemonic(lns[i].mnemonic)]]

isValidDataDirective(m) == m = data8BitDirective \/ m = data16BitDirective

isDataString(data) ==
    /\ Len(data) > 0
    /\ data[1] = srcStringToken
    /\ data[Len(data)] = srcStringToken

\* every byte of the string as given, quotes included, in %x upper-cased
dataStringToHex(dataString) ==
    Join([i \in 1..Len(dataString) |-> FmtX(Ord(dataString[i]))], <<dataDlm>>)

convDataStringsToHex(lns) ==
    [i \in 1..Len(lns) |->
        IF lns[i].mnemonic = data8BitDirective /\ isDataString(lns[i].data)
        THEN [lns[i] EXCEPT !.data = dataStringToHex(lns[i].data)]
        ELSE lns[i]]

isDataNullRepeat(data) ==
    /\ Len(data) > 0
    /\ data[1] = nullRepeatStartToken
    /\ data[Len(data)] = nullRepeatEndToken

\* nullRepeatData with the loop "for i := 1; i <= num_repeats; i++"
RECURSIVE nullRepeatDataInclusive(_, _, _)
nullRepeatDataInclusive(i, num_repeats, consts) ==
    IF i <= num_repeats
    THEN consts[<<"[","N","U","L","L","]">>] \o <<dataDlm>>
         \o nullRepeatDataInclusive(i + 1, num_repeats, consts)
    ELSE consts[<<"[","N","U","L","L","]">>]

\* the loop "for i := 1; i < num_repeats; i++" and the entry after it
RECURSIVE nullRepeatData(_, _, _)
nullRepeatData(i, num_repeats, consts) ==
    IF i < num_repeats
    THEN consts[<<"[","N","U","L","L","]">>] \o <<dataDlm>>
         \o nullRepeatData(i + 1, num_repeats, consts)
    ELSE consts[<<"[","N","U","L","L","]">>]

expandDataNullRepeats(lns, consts) ==
    LET isRepeat(l) == isValidDataDirective(l.mnemonic) /\ isDataNullRepeat(l.data)
        count(l) == Atoi(SubSeq(l.data, 2, Len(l.data) - 1))
        bad == {i \in 1..Len(lns) : isRepeat(lns[i]) /\ ~count(lns[i]).ok}
    IN IF bad # {}
       THEN [status |-> "error", lines |-> <<>>,
             err |-> Err("InvalidNullRepeat", lns[Min(bad)].lineNum + 1,
                         lns[Min(bad)].data, 0)]
       ELSE [status |-> "ok",
             lines |-> [i \in 1..Len(lns) |->
                          IF isRepeat(lns[i])
                          THEN [lns[i] EXCEPT
                                  !.data = nullRepeatData(1, count(lns[i]).val, consts)]
                          ELSE lns[i]],
             err |-> NoErr]

\* validateMnemonics that reports the last statement with an unknown
\* mnemonic
validateMnemonicsLast(lns) ==
    LET bad == {i \in 1..Len(lns) : lns[i].mnemonic \notin DOMAIN mnemonics}
    IN IF bad = {} THEN NoErr
       ELSE Err("UnknownMnemonic", lns[Max(bad)].lineNum + 1,
                lns[Max(bad)].mnemonic, 0)

validateMnemonics(lns) ==
    LET bad == {i \in 1..Len(lns) : lns[i].mnemonic \notin DOMAIN mnemonics}
    IN IF bad = {} THEN NoErr
       ELSE Err("UnknownMnemonic", lns[Min(bad)].lineNum + 1,
                lns[Min(bad)].mnemonic, 0)

\* regexp `^[0-9A-Fa-f]{1,4}$`
is16BitHexString(hex) ==
    Len(hex) \in 1..4 /\ \A i \in 1..Len(hex) : hex[i] \in HexChars
\* is8BitHexString with {0,2} for {1,2}: the empty value passes
is8BitHexStringOrEmpty(hex) ==
    Len(hex) \in 0..2 /\ \A i \in 1..Len(hex) : hex[i] \in HexChars
\* regexp `^[0-9A-Fa-f]{1,2}$`
is8BitHexString(hex) ==
    Len(hex) \in 1..2 /\ \A i \in 1..Len(hex) : hex[i] \in HexChars
is16BitHexStrings(hex) == \A i \in 1..Len(hex) : is16BitHexString(hex[i])
is8BitHexStrings(hex) == \A i \in 1..Len(hex) : is8BitHexString(hex[i])
isValidHexString(hex) == is16BitHexString(hex) \/ is8BitHexString(hex)

validateDataDirectives(lns) ==
    LET bad8(l) == /\ l.mnemonic = data8BitDirective
                   /\ ~is8BitHexStrings(Split(l.data, dataDlm))
        bad16(l) == /\ l.mnemonic = data16BitDirective
                    /\ ~is16BitHexStrings(Split(l.data, dataDlm))
        bad == {i \in 1..Len(lns) : bad8(lns[i]) \/ bad16(lns[i])}
    IN IF bad = {} THEN NoErr
       ELSE Err("InvalidDataWidth", lns[Min(bad)].lineNum + 1, <<>>,
                IF bad8(lns[Min(bad)]) THEN 8 ELSE 16)

\* stmtLength with one address per value on both data directives
stmtLengthOnePerValue(l) ==
    IF isValidDataDirective(l.mnemonic)
    THEN Len(Split(l.data, dataDlm))
    ELSE mnemonics[l.mnemonic].instrLength

\* what calcAddresses adds to programCounter for one statement
stmtLength(l) ==
    IF isValidDataDirective(l.mnemonic)
    THEN (IF l.mnemonic = data8BitDirective
          THEN Len(Split(l.data, dataDlm))
          ELSE 2 * Len(Split(l.data, dataDlm)))
    ELSE mnemonics[l.mnemonic].instrLength

\* counterOutOfRange with ">" for ">="
counterAboveRange(programCounter) == programCounter > maxAddressSpace

\* programCounter is an int: it is compared with the limit as it is
counterOutOfRange(programCounter) == programCounter >= maxAddressSpace

RECURSIVE calcAddressesFrom(_, _, _, _)
calcAddressesFrom(lns, i, programCounter, addressSrcLines) ==
    IF i > Len(lns)
    THEN [status |-> "ok", lines |-> addressSrcLines, err |-> NoErr]
    ELSE LET next == programCounter + stmtLength(lns[i]) IN
         IF counterOutOfRange(next)
         THEN [status |-> "error", lines |-> <<>>,
               err |-> Err("AddressOutOfRange", lns[i].lineNum + 1, <<>>, 0)]
         ELSE calcAddressesFrom(lns, i + 1, next,
                  Append(addressSrcLines,
                         [lns[i] EXCEPT !.address = programCounter]))

calcAddresses(lns, offset) == calcAddressesFrom(lns, 1, offset, <<>>)

\* a later statement with the same label overwrites an earlier one
getLabelAddresses(lns) ==
    LET labels == {lns[i].label : i \in {j \in 1..Len(lns) : lns[j].label # <<>>}}
    IN [l \in labels |->
          lns[Max({i \in 1..Len(lns) : lns[i].label = l})].address]

\* regexp `([\w.]{5,})`, FindString: the leftmost run of five or more
\* label characters, taken to its end
getOpLabel(op) ==
    LET starts == {i \in 1..Len(op) :
                     /\ op[i] \in LabelChars
                     /\ (i = 1 \/ op[i - 1] \notin LabelChars)
                     /\ RunEnd(op, i, LabelChars) - i + 1 >= 5}
    IN IF starts = {} THEN <<>>
       ELSE SubSeq(op, Min(starts), RunEnd(op, Min(starts), LabelChars))

\* labelText with "%X" for "%04X"
labelTextUnpadded(address) == FmtX(address)

\* the text a label is replaced by
labelText(address) == Fmt04X(address)

\* one operand of expandLabels: the operand after it, or the label that is
\* not defined
expandOp(op, labels) ==
    LET opLabel == getOpLabel(op) IN
    IF op = <<>> \/ opLabel = <<>> THEN [ok |-> TRUE, val |-> op, label |-> <<>>]
    ELSE IF opLabel \in DOMAIN labels
    THEN [ok |-> TRUE, val |-> ReplaceFirst(op, opLabel, labelText(labels[opLabel])),
          label |-> opLabel]
    ELSE [ok |-> FALSE, val |-> op, label |-> opLabel]

expandLabels(lns, labels) ==
    LET e1(l) == expandOp(l.op1, labels)
        e2(l) == expandOp(l.op2, labels)
        bad == {i \in 1..Len(lns) : ~e1(lns[i]).ok \/ ~e2(lns[i]).ok}
    IN IF bad # {}
       THEN [status |-> "error", lines |-> <<>>,
             err |-> Err("UndefinedLabel", lns[Min(bad)].lineNum + 1,
                         IF ~e1(lns[Min(bad)]).ok THEN e1(lns[Min(bad)]).label
                         ELSE e2(lns[Min(bad)]).label, 0)]
       ELSE [status |-> "ok",
             lines |-> [i \in 1..Len(lns) |->
                          [lns[i] EXCEPT !.op1 = e1(lns[i]).val,
                                         !.op2 = e2(lns[i]).val]],
             err |-> NoErr]

\* wrongArity with a one-operand case that does not look at the second operand
wrongArityFirstOnly(l) ==
    LET numOps == mnemonics[l.mnemonic].numOps IN
    \/ numOps = 0 /\ (l.op1 # <<>> \/ l.op2 # <<>>)
    \/ numOps = 1 /\ l.op1 = <<>>
    \/ numOps = 2 /\ (l.op1 = <<>> \/ l.op2 = <<>>)

\* the switch on numOps in validateOps
wrongArity(l) ==
    LET numOps == mnemonics[l.mnemonic].numOps IN
    \/ numOps = 0 /\ (l.op1 # <<>> \/ l.op2 # <<>>)
    \/ numOps = 1 /\ (l.op1 = <<>> \/ l.op2 # <<>>)
    \/ numOps = 2 /\ (l.op1 = <<>> \/ l.op2 = <<>>)

\* the error validateOps returns for one statement, NoErr when it passes
validateOp(l) ==
    IF isValidDataDirective(l.mnemonic) THEN NoErr
    ELSE IF wrongArity(l)
    THEN Err("WrongOperandArity", l.lineNum + 1, l.mnemonic,
             mnemonics[l.mnemonic].numOps)
    ELSE IF l.op1 # <<>> /\ ~isValidHexString(l.op1)
    THEN Err("InvalidOperand", l.lineNum + 1, l.op1, 0)
    ELSE IF l.op2 # <<>> /\ ~isValidHexString(l.op2)
    THEN Err("InvalidOperand", l.lineNum + 1, l.op2, 0)
    ELSE NoErr

validateOps(lns) ==
    LET bad == {i \in 1..Len(lns) : validateOp(lns[i]) # NoErr}
    IN IF bad = {} THEN NoErr ELSE validateOp(lns[Min(bad)])

----------------------------------------------------------------------------
(* Binary                                                                  *)

\* splitUint16 with the low byte first
splitUint16LowFirst(srcInt) == <<srcInt % 256, (srcInt \div 256) % 256>>

\* byte(srcInt), then srcInt >>= 8 and byte(srcInt): high byte first
splitUint16(srcInt) == <<(srcInt \div 256) % 256, srcInt % 256>>

appendUint16(bin, srcInt) == bin \o splitUint16(srcInt)

RECURSIVE buildDataFrom(_, _, _)
buildDataFrom(splitData, bits, bin) ==
    IF splitData = <<>> THEN bin
    ELSE buildDataFrom(Tail(splitData), bits,
             IF bits = 8
             THEN Append(bin, ParseUint16(Head(splitData), 8) % 256)
             ELSE appendUint16(bin, ParseUint16(Head(splitData), 16)))

buildData(l) ==
    IF l.mnemonic = data8BitDirective
    THEN [l EXCEPT !.bin = buildDataFrom(Split(l.data, dataDlm), 8, l.bin)]
    ELSE IF l.mnemonic = data16BitDirective
    THEN [l EXCEPT !.bin = buildDataFrom(Split(l.data, dataDlm), 16, l.bin)]
    ELSE l

\* the chain of comparisons in buildOpcode; 0 when none matches
opTypeSelector(op1Type, op2Type) ==
    IF op1Type = literalOp /\ op2Type = addressOp THEN 0
    ELSE IF op1Type = literalOp /\ op2Type = pointerOp THEN 1
    ELSE IF op1Type = addressOp /\ op2Type = addressOp THEN 2
    ELSE IF op1Type = addressOp /\ op2Type = pointerOp THEN 3
    ELSE IF op1Type = pointerOp /\ op2Type = addressOp THEN 4
    ELSE IF op1Type = pointerOp /\ op2Type = pointerOp THEN 5
    ELSE 0

\* buildOpcode with opcode <<= 4 for opcode <<= 3
buildOpcodeShiftFour(l) ==
    [l EXCEPT !.bin = Append(l.bin,
        ((mnemonics[l.mnemonic].opcode * 16) % 256)
        + opTypeSelector(l.op1Type, l.op2Type))]

\* opcode is a byte: opcode <<= 3 keeps the low 8 bits; the selector is
\* or-ed into the three bits the shift cleared
buildOpcode(l) ==
    [l EXCEPT !.bin = Append(l.bin,
        ((mnemonics[l.mnemonic].opcode * 8) % 256)
        + opTypeSelector(l.op1Type, l.op2Type))]

buildOps(l) ==
    LET instrLength == mnemonics[l.mnemonic].instrLength IN
    IF instrLength = 3
    THEN [l EXCEPT !.bin = appendUint16(l.bin, ParseUint16(l.op1, 16))]
    ELSE IF instrLength = 5
    THEN [l EXCEPT !.bin = appendUint16(appendUint16(l.bin, ParseUint16(l.op1, 16)),
                                        ParseUint16(l.op2, 16))]
    ELSE l

buildInstr(l) == buildOps(buildOpcode(l))

buildBinSrcLine(l) ==
    IF isValidDataDirective(l.mnemonic) THEN buildData(l) ELSE buildInstr(l)

buildBinSrcLines(lns) == [i \in 1..Len(lns) |-> buildBinSrcLine(lns[i])]

RECURSIVE concatBin(_)
concatBin(lns) ==
    IF lns = <<>> THEN <<>> ELSE Head(lns).bin \o concatBin(Tail(lns))

\* binMagicHeader has no spare capacity: append copies it
buildBin(lns, offset) == appendUint16(binMagicHeader, offset) \o concatBin(lns)


\* Raw as a function of its arguments and the constant table it finds: the
\* stages in the order of the calls, each error returned as it occurs
RawFn(rawLines, name, offset, files, consts) ==
    LET Failed(status, err) ==
            [status |-> status, bin |-> <<>>, err |-> err, lines |-> <<>>]
        cleaned == cleanSrc(rawLines)
        expanded == expandConsts(cleaned, consts)
        namespaced == addSrcLabelNamespaces(expanded.lines, name)
        included == addIncludes(namespaced, files, expanded.consts)
        dupe == hasDupeSrcLabels(included.lines)
        converted == convDataStringsToHex(unaliasMnemonics(buildStructSrc(included.lines)))
        repeated == expandDataNullRepeats(converted, included.consts)
        addressed == calcAddresses(repeated.lines, offset)
        resolved == expandLabels(addressed.lines, getLabelAddresses(addressed.lines))
        built == buildBinSrcLines(resolved.lines)
    IN IF expanded.status # "ok" THEN Failed(expanded.status, expanded.err)
       ELSE IF included.status # "ok" THEN Failed(included.status, included.err)
       ELSE IF dupe # 0
       THEN Failed("error", Err("DuplicateLabel", dupe, included.lines[dupe], 0))
       ELSE IF repeated.status # "ok" THEN Failed("error", repeated.err)
       ELSE IF validateMnemonics(repeated.lines) # NoErr
       THEN Failed("error", validateMnemonics(repeated.lines))
       ELSE IF validateDataDirectives(repeated.lines) # NoErr
       THEN Failed("error", validateDataDirectives(repeated.lines))
       ELSE IF addressed.status # "ok" THEN Failed("error", addressed.err)
       ELSE IF resolved.status # "ok" THEN Failed("error", resolved.err)
       ELSE IF validateOps(resolved.lines) # NoErr
       THEN Failed("error", validateOps(resolved.lines))
       ELSE [status |-> "ok", bin |-> buildBin(built, offset), err |-> NoErr,
             lines |-> built]

----------------------------------------------------------------------------
(* Raw: one action per stage, in the order of the calls in Raw             *)

\* what a call of Raw returns: the bytes (nil, here empty, with an error)
\* and the error (nil, here NoErr, with the bytes)
Returns(bin, err) == [bin |-> bin, err |-> err]

Return(bin, err) ==
    /\ pc' = "idle"
    /\ returned' = Append(returned, Returns(bin, err))

\* a run-time panic nobody recovers ends the process: no call returns
Panic == pc' = "panicked" /\ UNCHANGED returned

Goto(stage) == pc' = stage /\ UNCHANGED returned

args == <<inLines, srcName, programOffset, incFiles, nCalls>>

\* the preprocessing stages: they leave a status, the new lines and the
\* constant table
Preprocessed(r, stage) ==
    /\ defaultConsts' = r.consts
    /\ IF r.status = "ok" THEN rawSrcLines' = r.lines /\ Goto(stage)
       ELSE IF r.status = "panic" THEN Panic /\ UNCHANGED rawSrcLines
       ELSE Return(<<>>, r.err) /\ UNCHANGED rawSrcLines
    /\ UNCHANGED <<args, srcLines, labelAddresses>>

\* the stages on structured source that can fail
Processed(r, stage) ==
    /\ IF r.status = "ok" THEN srcLines' = r.lines /\ Goto(stage)
       ELSE Return(<<>>, r.err) /\ UNCHANGED srcLines
    /\ UNCHANGED <<args, defaultConsts, rawSrcLines, labelAddresses>>

\* the validations: they change nothing, or end the call
Validated(err, stage) ==
    /\ IF err = NoErr THEN Goto(stage) ELSE Return(<<>>, err)
    /\ UNCHANGED <<args, defaultConsts, rawSrcLines, srcLines, labelAddresses>>

\* the host calls Raw; the arguments are those of the first call
Call ==
    /\ pc = "idle"
    /\ Len(returned) < nCalls
    /\ rawSrcLines' = inLines
    /\ srcLines' = <<>>
    /\ labelAddresses' = <<>>
    /\ Goto("cleanSrc")
    /\ UNCHANGED <<args, defaultConsts>>

CleanSrc ==
    /\ pc = "cleanSrc"
    /\ rawSrcLines' = cleanSrc(rawSrcLines)
    /\ Goto("expandConsts")
    /\ UNCHANGED <<args, defaultConsts, srcLines, labelAddresses>>

ExpandConsts ==
    /\ pc = "expandConsts"
    /\ Preprocessed(expandConsts(rawSrcLines, defaultConsts), "addSrcLabelNamespaces")

AddSrcLabelNamespaces ==
    /\ pc = "addSrcLabelNamespaces"
    /\ rawSrcLines' = addSrcLabelNamespaces(rawSrcLines, srcName)
    /\ Goto("addIncludes")
    /\ UNCHANGED <<args, defaultConsts, srcLines, labelAddresses>>

AddIncludes ==
    /\ pc = "addIncludes"
    /\ Preprocessed(addIncludes(rawSrcLines, incFiles, defaultConsts),
                    "hasDupeSrcLabels")

HasDupeSrcLabels ==
    /\ pc = "hasDupeSrcLabels"
    /\ LET lineNum == hasDupeSrcLabels(rawSrcLines) IN
       Validated(IF lineNum = 0 THEN NoErr
                 ELSE Err("DuplicateLabel", lineNum, rawSrcLines[lineNum], 0),
                 "buildStructSrc")

BuildStructSrc ==
    /\ pc = "buildStructSrc"
    /\ srcLines' = buildStructSrc(rawSrcLines)
    /\ Goto("unaliasMnemonics")
    /\ UNCHANGED <<args, defaultConsts, rawSrcLines, labelAddresses>>

UnaliasMnemonics ==
    /\ pc = "unaliasMnemonics"
    /\ srcLines' = unaliasMnemonics(srcLines)
    /\ Goto("convDataStringsToHex")
    /\ UNCHANGED <<args, defaultConsts, rawSrcLines, labelAddresses>>

ConvDataStringsToHex ==
    /\ pc = "convDataStringsToHex"
    /\ srcLines' = convDataStringsToHex(srcLines)
    /\ Goto("expandDataNullRepeats")
    /\ UNCHANGED <<args, defaultConsts, rawSrcLines, labelAddresses>>

ExpandDataNullRepeats ==
    /\ pc = "expandDataNullRepeats"
    /\ Processed(expandDataNullRepeats(srcLines, defaultConsts), "validateMnemonics")

ValidateMnemonics ==
    /\ pc = "validateMnemonics"
    /\ Validated(validateMnemonics(srcLines), "validateDataDirectives")

ValidateDataDirectives ==
    /\ pc = "validateDataDirectives"
    /\ Validated(validateDataDirectives(srcLines), "calcAddresses")

CalcAddresses ==
    /\ pc = "calcAddresses"
    /\ Processed(calcAddresses(srcLines, programOffset), "getLabelAddresses")

GetLabelAddresses ==
    /\ pc = "getLabelAddresses"
    /\ labelAddresses' = getLabelAddresses(srcLines)
    /\ Goto("expandLabels")
    /\ UNCHANGED <<args, defaultConsts, rawSrcLines, srcLines>>

ExpandLabels ==
    /\ pc = "expandLabels"
    /\ Processed(expandLabels(srcLines, labelAddresses), "validateOps")

ValidateOps ==
    /\ pc = "validateOps"
    /\ Validated(validateOps(srcLines), "buildBinSrcLines")

BuildBinSrcLines ==
    /\ pc = "buildBinSrcLines"
    /\ srcLines' = buildBinSrcLines(srcLines)
    /\ Goto("buildBin")
    /\ UNCHANGED <<args, defaultConsts, rawSrcLines, labelAddresses>>

BuildBin ==
    /\ pc = "buildBin"
    /\ Return(buildBin(srcLines, programOffset), NoErr)
    /\ UNCHANGED <<args, defaultConsts, rawSrcLines, srcLines, labelAddresses>>

Next ==
    \/ Call
    \/ CleanSrc
    \/ ExpandConsts
    \/ AddSrcLabelNamespaces
    \/ AddIncludes
    \/ HasDupeSrcLabels
    \/ BuildStructSrc
    \/ UnaliasMnemonics
    \/ ConvDataStringsToHex
    \/ ExpandDataNullRepeats
    \/ ValidateMnemonics
    \/ ValidateDataDirectives
    \/ CalcAddresses
    \/ GetLabelAddresses
    \/ ExpandLabels
    \/ ValidateOps
    \/ BuildBinSrcLines
    \/ BuildBin

----------------------------------------------------------------------------
(* The calls explored                                                      *)

\* all sequences over S of length at most n
SeqsUpTo(S, n) == UNION {[1..k -> S] : k \in 0..n}

\* the process starts with the built-in constants and no call made
InitWith(programs, names, offsets, fileSets, calls) ==
    /\ defaultConsts = builtinConsts
    /\ inLines \in programs
    /\ srcName \in names
    /\ programOffset \in offsets
    /\ incFiles \in fileSets
    /\ nCalls = calls
    /\ pc = "idle"
    /\ rawSrcLines = <<>>
    /\ srcLines = <<>>
    /\ labelAddresses = <<>>
    /\ returned = <<>>

NoFiles == <<>>
MainName == <<"m","a","i","n",".","r","a","s","m">>

LineNO == <<"N","O">>
LineBlank == <<>>

\* Programs that define and use constants, assembled MaxRuns times
LineDefFoo == <<"[","F","O","O","]"," ","1","A">>
LineBareFoo == <<"[","F","O","O","]">>
LineCoFoo == <<"C","O"," ","$","[","F","O","O","]",",","[","G","P","0","]">>
MainLines == {LineNO, LineDefFoo, LineBareFoo, LineCoFoo}

Init == InitWith(SeqsUpTo(MainLines, MaxLines), {MainName}, {0}, {NoFiles}, MaxRuns)
Spec == Init /\ [][Next]_vars

\* Programs of instructions and data, at two load offsets
LineData8 == <<"$","8"," ","1",",","f","f">>
LineData16 == <<"$","1","6"," ","1",",","A","B","C","D">>
LineEqPtr == <<"E","Q"," ","*","1","2">>
LineCoLit == <<"C","O"," ","$","1","a",",","[","G","P","0","]">>
EncodeLines == {LineNO, LineBlank, LineData8, LineData16, LineEqPtr, LineCoLit}

InitEncode ==
    InitWith(SeqsUpTo(EncodeLines, MaxLines), {MainName}, {0, 4660}, {NoFiles}, 1)
SpecEncode == InitEncode /\ [][Next]_vars

\* Programs with labels, references to them and an include file
LineStart == <<"s","t","a","r","t">>
LineFooBar == <<"f","o","o",".","b","a","r">>
LineCmFooBar == <<"C","M"," ","$","1",",","f","o","o",".","b","a","r">>
LineEqStart == <<"E","Q"," ","s","t","a","r","t">>
LineIncLib == <<"<","l","i","b">>
LibName == <<"l","i","b",".","_","r","a","s","m">>
LibLines == <<<<"m","a","i","n",".","s","t","a","r","t">>, <<"N","O">>>>
LabelLines == {LineStart, LineFooBar, LineNO, LineCmFooBar, LineEqStart,
               LineBlank, LineIncLib}

InitLabels ==
    InitWith(SeqsUpTo(LabelLines, MaxLines), {MainName}, {2814},
             {LibName :> LibLines}, 1)
SpecLabels == InitLabels /\ [][Next]_vars


\* Programs that reach the end of the address space, at load offsets below,
\* at and above the limit
LineCo12 == <<"C","O"," ","1",",","2">>
LineData8x3 == <<"$","8"," ","1",",","2",",","3">>
AddrLines == {LineNO, LineCo12, LineData8x3, LineData16}

InitAddr ==
    InitWith(SeqsUpTo(AddrLines, MaxLines), {MainName},
             {0, 65190, 65194, 65199, 65535}, {NoFiles}, 1)
SpecAddr == InitAddr /\ [][Next]_vars

\* Programs of instructions with too few, too many and the right operands
LineNOLit == <<"N","O"," ","$","1">>
LineNOSigil == <<"N","O"," ","$">>
LineRT == <<"R","T">>
LineRT1 == <<"R","T"," ","1">>
LineRT12 == <<"R","T"," ","1",",","2">>
LineRTSecond == <<"R","T"," ",",","2">>
LineCo1 == <<"C","O"," ","1">>
LineCoLit12 == <<"C","O"," ","$","1",",","2">>
LineCoSecond == <<"C","O"," ",",","2">>
ArityLines == {LineNO, LineNOLit, LineNOSigil, LineRT, LineRT1, LineRT12,
               LineRTSecond, LineCo1, LineCoLit12, LineCoSecond}

InitArity ==
    InitWith(SeqsUpTo(ArityLines, MaxArityLines), {MainName}, {0}, {NoFiles}, 1)
SpecArity == InitArity /\ [][Next]_vars

\* strconv.Itoa for n >= 0
RECURSIVE Itoa(_)
Itoa(n) ==
    IF n < 10 THEN <<HexSeq[n + 1]>>
    ELSE Itoa(n \div 10) \o <<HexSeq[(n % 10) + 1]>>

\* Programs with the directive "$16 (N)" for N = 1..MaxRepeat and N = 10
RepeatLine(n) == <<"$","1","6"," ","(">> \o Itoa(n) \o <<")">>
RepeatLines == {RepeatLine(n) : n \in 1..MaxRepeat} \cup {RepeatLine(10), LineNO}

InitRepeat ==
    InitWith(SeqsUpTo(RepeatLines, MaxLines), {MainName}, {0}, {NoFiles}, 1)
SpecRepeat == InitRepeat /\ [][Next]_vars

\* Programs of one statement per alias of the alias table
AliasLine(alias) ==
    IF alias = <<dataLineToken>> THEN <<"$"," ","1",",","2">> ELSE alias \o <<" ","$","1",",","2">>
AliasLines == {AliasLine(alias) : alias \in DOMAIN mnemonicAliases}

InitAlias ==
    InitWith(SeqsUpTo(AliasLines, MaxAliasLines), {MainName}, {0}, {NoFiles}, 1)
SpecAlias == InitAlias /\ [][Next]_vars

\* Programs with quoted strings as data
LineStrAB == <<"$","8"," ","\"","A","B","\"">>
LineStrLower == <<"$","8"," ","\"","a","\"">>
StringLines == {LineStrAB, LineStrLower, LineData8, LineNO}

InitStrings ==
    InitWith(SeqsUpTo(StringLines, MaxLines), {MainName}, {0}, {NoFiles}, 1)
SpecStrings == InitStrings /\ [][Next]_vars

\* Programs of data directives: null repeats on both widths, values of
\* every width, empty values
RepeatLine8(n) == <<"$","8"," ","(">> \o Itoa(n) \o <<")">>
LineData8Wide == <<"$","8"," ","1","2","3">>
LineData8Bare == <<"$","8">>
LineData8Doubled == <<"$","8"," ","1",",",",","2">>
LineData8Leading == <<"$","8"," ",",","1">>
LineData8Trailing == <<"$","8"," ","1",",">>
LineData16Wide == <<"$","1","6"," ","1","2","3","4","5">>
LineData16NotHex == <<"$","1","6"," ","g">>
DataLines ==
    {RepeatLine8(n) : n \in 1..MaxRepeat} \cup
    {RepeatLine(0), RepeatLine(1), LineData8, LineData8Wide, LineData8Bare,
     LineData8Doubled,
     LineData8Leading, LineData8Trailing, LineData16, LineData16Wide,
     LineData16NotHex, LineNO}

InitData ==
    InitWith(SeqsUpTo(DataLines, MaxDataLines), {MainName}, {0}, {NoFiles}, 1)
SpecData == InitData /\ [][Next]_vars

\* Programs with constants in the top-level file and in two include
\* files: one that defines [FOO] and uses it, one that only uses it
LineData16Foo == <<"$","1","6"," ","[","F","O","O","]">>
LineData16Bar == <<"$","1","6"," ","[","B","A","R","]">>
LineIncDefs == <<"<","d","e","f","s">>
LineIncUses == <<"<","u","s","e","s">>
DefsName == <<"d","e","f","s",".","_","r","a","s","m">>
UsesName == <<"u","s","e","s",".","_","r","a","s","m">>
DefsLines == <<<<"[","F","O","O","]"," ","2","B">>, LineData16Foo>>
UsesLines == <<LineData16Foo>>
ConstFiles == (DefsName :> DefsLines) @@ (UsesName :> UsesLines)
ConstLines ==
    {LineDefFoo, LineData16Foo, LineData16Bar, LineIncDefs, LineIncUses, LineNO}

InitConsts ==
    InitWith(SeqsUpTo(ConstLines, MaxLines), {MainName}, {0}, {ConstFiles}, 1)
SpecConsts == InitConsts /\ [][Next]_vars

\* Programs with spaces and tabs around and between mnemonic and operands
LineCoTab == <<"C","O","\t","$","1",",","2">>
LineCoTwoSpaces == <<"C","O"," "," ","$","1",",","2">>
LineCoSpaceTab == <<"C","O"," ","\t","$","1",",","2">>
LineNOPadded == <<" ","N","O","\t">>
SpaceLines == {LineCoTab, LineCoTwoSpaces, LineCoSpaceTab, LineNOPadded, LineNO}

InitSpace ==
    InitWith(SeqsUpTo(SpaceLines, MaxLines), {MainName}, {0}, {NoFiles}, 1)
SpecSpace == InitSpace /\ [][Next]_vars

\* Programs of one instruction: every mnemonic of the table with operands
\* of the number it needs, and four mnemonics with every pair of operand
\* types
OpTypes == {addressOp, literalOp, pointerOp}
OpText(type, value) ==
    (IF type = literalOp THEN <<"$">> ELSE IF type = pointerOp THEN <<"*">> ELSE <<>>)
    \o value
Instructions == {m \in DOMAIN mnemonics : ~isValidDataDirective(m)}
AllPairs == {<<"C","O","1","6">>, <<"J","S">>, <<"S","R","1","6">>, <<"C","M","8">>}
OneOpLine(m, t) == m \o <<" ">> \o OpText(t, <<"1","A">>)
TwoOpLine(m, t1, t2) == m \o <<" ">> \o OpText(t1, <<"1","A">>) \o <<",">> \o OpText(t2, <<"2","B">>)
LineCoTwoLiterals == <<"C","O"," ","$","1",",","$","2">>
LineEqLitSigil == <<"E","Q"," ","$","1","A",",","*">>
OpcodeLines ==
    {m \in Instructions : mnemonics[m].numOps = 0} \cup
    {OneOpLine(m, t) : m \in {x \in Instructions : mnemonics[x].numOps = 1},
                       t \in OpTypes} \cup
    {TwoOpLine(m, addressOp, pointerOp) :
        m \in {x \in Instructions : mnemonics[x].numOps = 2}} \cup
    {TwoOpLine(m, t1, t2) : m \in AllPairs, t1 \in OpTypes, t2 \in OpTypes} \cup
    {LineCoTwoLiterals, LineEqLitSigil}

InitOpcode ==
    InitWith(SeqsUpTo(OpcodeLines, MaxOpcodeLines), {MainName}, {0}, {NoFiles}, 1)
SpecOpcode == InitOpcode /\ [][Next]_vars

\* Programs with one line that fails in each stage that can fail
LineXX == <<"X","X">>
LineNOUndefined == <<"N","O"," ","u","n","d","e","f","i","n","e","d","_","l","a","b","e","l">>
LineEqNotHex == <<"E","Q"," ","z","z">>
LineRepeatNotANumber == <<"$","1","6"," ","(","x",")">>
LineIncMissing == <<"<","n","o","f","i","l","e">>
OrderLines ==
    {LineNO, LineXX, LineData8Wide, LineNOUndefined, LineRT, LineEqNotHex,
     LineData16Bar, LineDefFoo, LineStart, LineRepeatNotANumber,
     LineIncMissing}

InitOrder ==
    InitWith(SeqsUpTo(OrderLines, MaxLines), {MainName}, {0, 65199}, {NoFiles}, 1)
SpecOrder == InitOrder /\ [][Next]_vars

\* Programs with labels and references, qualified and not, in the
\* top-level file and in an include file with a label of the same name
LineEqNsStart == <<"E","Q"," ","n","s","l","i","b",".","s","t","a","r","t">>
LineEqShort == <<"E","Q"," ","a","b","c","d">>
LineData16Start == <<"$","1","6"," ","s","t","a","r","t">>
LineIncNs == <<"<","n","s","l","i","b">>
NsName == <<"n","s","l","i","b",".","_","r","a","s","m">>
NsLines == <<LineStart, LineEqStart>>
NamespaceLines ==
    {LineStart, LineEqStart, LineEqNsStart, LineEqShort, LineData16Start,
     LineIncNs, LineNO}

InitNamespace ==
    InitWith(SeqsUpTo(NamespaceLines, MaxLines), {MainName}, {2814},
             {NsName :> NsLines}, 1)
SpecNamespace == InitNamespace /\ [][Next]_vars


----------------------------------------------------------------------------
(* Properties                                                              *)

Finished == pc = "idle" /\ returned # <<>>
Last == returned[Len(returned)]
Succeeded == Finished /\ Last.err = NoErr

\* C1: when a call of Raw on given source lines, name, load offset and
\* include files succeeds, every call of Raw on the same arguments in the
\* same process returns the same bytes and no error, also when the program
\* defines constants of its own.
C1_SameResultEveryRun ==
    \A i, j \in 1..Len(returned) :
        returned[i].err = NoErr => returned[j] = returned[i]

\* C9: every call of Raw returns: bytes and no error, or an error and no
\* bytes; no call ends in a run-time panic, also not on a line that is only
\* a bracketed name.
C9_ReturnsBytesOrError ==
    /\ pc # "panicked"
    /\ \A i \in 1..Len(returned) :
          \/ returned[i].err = NoErr /\ returned[i].bin # <<>>
          \/ returned[i].err # NoErr /\ returned[i].bin = <<>>

\* the statement a source line was built into
Instr(l) == ~isValidDataDirective(l.mnemonic)

\* the statement as buildStructSrc built it, before any later stage
Original(l) == structLine(rawSrcLines, l.lineNum + 1)

\* the bytes emitted by the statements before statement i
RECURSIVE BinLenBefore(_, _)
BinLenBefore(lns, i) ==
    IF i <= 1 THEN 0 ELSE BinLenBefore(lns, i - 1) + Len(lns[i - 1].bin)

\* the lengths of statements 1..i added up
RECURSIVE LengthUpTo(_, _)
LengthUpTo(lns, i) ==
    IF i < 1 THEN 0 ELSE LengthUpTo(lns, i - 1) + stmtLength(lns[i])

HighLow(n) == <<n \div 256, n % 256>>

RECURSIVE HighLowAll(_)
HighLowAll(values) ==
    IF values = <<>> THEN <<>>
    ELSE HighLow(HexVal(Head(values))) \o HighLowAll(Tail(values))

\* what C2 says a statement emits after its first byte (an instruction) or
\* in all (a data directive)
OperandBytes(l) ==
    (IF l.op1 # <<>> THEN HighLow(HexVal(l.op1)) ELSE <<>>)
    \o (IF l.op2 # <<>> THEN HighLow(HexVal(l.op2)) ELSE <<>>)

DataBytes(l) ==
    LET values == Split(l.data, ",") IN
    IF l.mnemonic = <<"$","8">> THEN [k \in 1..Len(values) |-> HexVal(values[k])]
    ELSE HighLowAll(values)

\* C2: when Raw succeeds its output is the bytes 12 31 1C 16, then the load
\* offset high byte first, then the bytes of every statement in source
\* order and nothing else: 16-bit operands and $16 values high byte first,
\* $8 values one byte each; ["NO"] at offset 0 gives 12 31 1C 16 00 00 00.
C2_MagicOffsetStatements ==
    Succeeded =>
        LET bin == Last.bin
            n == Len(srcLines)
        IN /\ Len(bin) = 6 + BinLenBefore(srcLines, n + 1)
           /\ SubSeq(bin, 1, 4) = <<18, 49, 28, 22>>
           /\ SubSeq(bin, 5, 6) = HighLow(programOffset)
           /\ \A i \in 1..n :
                 /\ SubSeq(bin, 7 + BinLenBefore(srcLines, i),
                                6 + BinLenBefore(srcLines, i + 1)) = srcLines[i].bin
                 /\ \A j \in 1..n : i < j => srcLines[i].lineNum < srcLines[j].lineNum
                 /\ IF Instr(srcLines[i])
                    THEN /\ srcLines[i].bin # <<>>
                         /\ Tail(srcLines[i].bin) = OperandBytes(srcLines[i])
                    ELSE srcLines[i].bin = DataBytes(srcLines[i])
           /\ {srcLines[i].lineNum + 1 : i \in 1..n}
                 = {k \in 1..Len(rawSrcLines) :
                      rawSrcLines[k] # <<>> /\ ~isSrcLabel(rawSrcLines[k])}
           /\ (inLines = <<LineNO>> /\ programOffset = 0
                 => bin = <<18, 49, 28, 22, 0, 0, 0>>)

C2_Witness ==
    /\ Succeeded
    /\ programOffset = 4660
    /\ inLines = <<LineData16, LineCoLit, LineData8>>
    /\ SubSeq(Last.bin, 5, 10) = <<18, 52, 0, 1, 171, 205>>
    /\ SubSeq(Last.bin, 16, 17) = <<1, 255>>

\* the label lines of the expanded source
LabelLineNums == {k \in 1..Len(rawSrcLines) : isSrcLabel(rawSrcLines[k])}

\* the statements below line k of the expanded source
Below(k) == {j \in 1..Len(srcLines) : srcLines[j].lineNum + 1 > k}

IsHex4Upper(s, n) ==
    /\ Len(s) = 4
    /\ \A c \in 1..4 : s[c] \in Digits \cup {"A", "B", "C", "D", "E", "F"}
    /\ HexVal(s) = n

\* an operand (as written, and as it is after assembly) names the label of
\* line k and holds the address of the statement the label is attached to
Resolved(written, final, k) ==
    written = rawSrcLines[k] =>
        /\ Below(k) # {}
        /\ IsHex4Upper(final,
               programOffset + BinLenBefore(srcLines, Min(Below(k))))

\* C3: in a successfully assembled program every operand that names a label
\* is replaced by the 4-digit upper-case hex address of the statement the
\* label is attached to, which is the load offset plus the byte lengths of
\* all earlier statements, whether the label line is above or below the
\* instruction.
C3_LabelsResolveToAddresses ==
    Succeeded =>
        \A i \in 1..Len(srcLines) : \A k \in LabelLineNums :
            /\ Resolved(Original(srcLines[i]).op1, srcLines[i].op1, k)
            /\ Resolved(Original(srcLines[i]).op2, srcLines[i].op2, k)

C3_Witness ==
    /\ Succeeded
    /\ \E i, j, m \in 1..Len(srcLines) :
          /\ i < j /\ j < m
          /\ srcLines[j].label # <<>>
          /\ Original(srcLines[i]).op1 = srcLines[j].label
          /\ Original(srcLines[m]).op1 = srcLines[j].label
          /\ srcLines[i].op1 = srcLines[m].op1
          /\ IsHex4Upper(srcLines[i].op1, srcLines[j].address)
          /\ srcLines[j].address > programOffset

\* C4: when Raw succeeds every statement's address is the load offset plus
\* the lengths of the statements before it, at least the load offset and
\* below 0xFEB0; when the counter reaches 0xFEB0 or more after a statement,
\* Raw returns the address-out-of-range error with that statement's 1-based
\* line number; the counter is not reduced modulo 2^16.
C4_AddressBound ==
    /\ [](Succeeded =>
            \A i \in 1..Len(srcLines) :
                /\ srcLines[i].address = programOffset + LengthUpTo(srcLines, i - 1)
                /\ programOffset <= srcLines[i].address
                /\ srcLines[i].address < 65200)
    /\ [][pc = "calcAddresses" =>
            LET over == {i \in 1..Len(srcLines) :
                           programOffset + LengthUpTo(srcLines, i) >= 65200}
            IN IF over = {} THEN pc' = "getLabelAddresses"
               ELSE /\ pc' = "idle"
                    /\ Last' = Returns(<<>>, Err("AddressOutOfRange",
                                   srcLines[Min(over)].lineNum + 1, <<>>, 0))]_vars

C4_Witness ==
    /\ Finished
    /\ Last.err.kind = "AddressOutOfRange"
    /\ Last.err.line = 2
    /\ Last.bin = <<>>
    /\ programOffset + LengthUpTo(srcLines, 2) = 65200

\* the operands set are those the mnemonic declares
ArityMatches(l) ==
    LET numOps == mnemonics[l.mnemonic].numOps
        set1 == l.op1 # <<>>
        set2 == l.op2 # <<>>
    IN \/ numOps = 0 /\ ~set1 /\ ~set2
       \/ numOps = 1 /\ set1 /\ ~set2
       \/ numOps = 2 /\ set1 /\ set2

\* C5: Raw succeeds only if every instruction has the operands its mnemonic
\* declares; an instruction with an operand set that its mnemonic does not
\* take, or without one it takes, makes Raw return the "<mnemonic> needs N
\* operand(s)" error at that line (the first such line, when the lines
\* before it pass).
C5_OperandArity ==
    /\ [](pc \in {"buildBinSrcLines", "buildBin"} \/ Succeeded =>
            \A i \in 1..Len(srcLines) :
                Instr(srcLines[i]) => ArityMatches(srcLines[i]))
    /\ [][pc = "validateOps" =>
            \A i \in 1..Len(srcLines) :
                /\ Instr(srcLines[i])
                /\ ~ArityMatches(srcLines[i])
                /\ \A k \in 1..(i - 1) : validateOp(srcLines[k]) = NoErr
                => /\ pc' = "idle"
                   /\ Last' = Returns(<<>>, Err("WrongOperandArity",
                                  srcLines[i].lineNum + 1, srcLines[i].mnemonic,
                                  mnemonics[srcLines[i].mnemonic].numOps))]_vars

C5_Witness ==
    /\ Finished
    /\ inLines = <<LineNO, LineRT>>
    /\ Last = Returns(<<>>, Err("WrongOperandArity", 2, <<"R","T">>, 1))

\* N when the data of a $16 directive, as written, is "(N)" with N >= 1; 0
\* otherwise
RepeatCount(mnemonic, data) ==
    IF mnemonic = <<"$","1","6">> /\ isDataNullRepeat(data)
       /\ Atoi(SubSeq(data, 2, Len(data) - 1)).ok
       /\ Atoi(SubSeq(data, 2, Len(data) - 1)).val >= 1
    THEN Atoi(SubSeq(data, 2, Len(data) - 1)).val
    ELSE 0

Zeros(n) == [k \in 1..n |-> <<"0","0","0","0">>]

\* a line "$16 (N)" written out as "$16 0000,...,0000" with N values
WrittenOut(line) ==
    LET parts == SplitN2(line, " ") IN
    IF Len(parts) = 2 /\ RepeatCount(parts[1], parts[2]) >= 1
    THEN <<"$","1","6"," ">> \o Join(Zeros(RepeatCount(parts[1], parts[2])), <<",">>)
    ELSE line

AfterRepeats ==
    {"validateMnemonics", "validateDataDirectives", "calcAddresses",
     "getLabelAddresses", "expandLabels", "validateOps", "buildBinSrcLines",
     "buildBin"}

\* C6: for N >= 1 the directive "$16 (N)" expands to N entries "0000",
\* emits 2N zero bytes, moves the next statement's address by 2N, and the
\* program assembles to the same bytes and addresses as the program with
\* the N values written out.
C6_NullRepeat16 ==
    /\ pc \in AfterRepeats \/ Succeeded =>
          \A i \in 1..Len(srcLines) :
              LET N == RepeatCount(Original(srcLines[i]).mnemonic,
                                   Original(srcLines[i]).data)
              IN N >= 1 =>
                   /\ Split(srcLines[i].data, ",") = Zeros(N)
                   /\ Succeeded =>
                        /\ srcLines[i].bin = [k \in 1..(2 * N) |-> 0]
                        /\ i < Len(srcLines) =>
                             srcLines[i + 1].address = srcLines[i].address + 2 * N
    /\ Finished =>
          LET written == RawFn([k \in 1..Len(inLines) |-> WrittenOut(inLines[k])],
                               srcName, programOffset, incFiles, builtinConsts)
          IN /\ Last = Returns(written.bin, written.err)
             /\ Succeeded =>
                  [k \in 1..Len(srcLines) |-> srcLines[k].address]
                    = [k \in 1..Len(written.lines) |-> written.lines[k].address]

C6_Witness ==
    /\ Succeeded
    /\ inLines = <<RepeatLine(3), LineNO>>
    /\ srcLines[1].data = <<"0","0","0","0",",","0","0","0","0",",","0","0","0","0">>
    /\ srcLines[2].address = 6
    /\ Last.bin = <<18, 49, 28, 22, 0, 0, 0, 0, 0, 0, 0, 0, 0>>

\* two label lines of the expanded source with the same text
DupeLabelLines(srcLns) ==
    {<<i, j>> \in (1..Len(srcLns)) \X (1..Len(srcLns)) :
        i < j /\ isSrcLabel(srcLns[i]) /\ srcLns[i] = srcLns[j]}

\* C7: when the expanded source (top-level and included lines, namespaced)
\* holds two label lines with the same text, at any distance and from any
\* files, Raw returns the duplicate-label error and no bytes; when it holds
\* none the label table is built with every labelled statement under a
\* name of its own.
C7_DuplicateLabelsRejected ==
    [][/\ pc = "hasDupeSrcLabels" =>
            IF DupeLabelLines(rawSrcLines) # {}
            THEN /\ pc' = "idle"
                 /\ Last'.err.kind = "DuplicateLabel"
                 /\ Last'.bin = <<>>
                 /\ \E d \in DupeLabelLines(rawSrcLines) :
                        Last'.err.text = rawSrcLines[d[1]]
            ELSE pc' = "buildStructSrc"
       /\ pc = "getLabelAddresses" =>
            /\ DupeLabelLines(rawSrcLines) = {}
            /\ \A i, j \in 1..Len(srcLines) :
                   srcLines[i].label # <<>> /\ srcLines[i].label = srcLines[j].label
                   => i = j
            /\ \A l \in DOMAIN labelAddresses' :
                   Cardinality({i \in 1..Len(srcLines) : srcLines[i].label = l}) = 1]_vars

C7_Witness ==
    /\ Finished
    /\ Last.err.kind = "DuplicateLabel"
    /\ Last.bin = <<>>
    /\ LineIncLib \in Range(inLines)
    /\ \E d \in DupeLabelLines(rawSrcLines) : d[2] > d[1] + 1

\* a line with its alias replaced by the mnemonic the alias stands for
Canonical(line) ==
    LET parts == SplitN2(line, " ") IN
    IF parts[1] \in DOMAIN mnemonicAliases
    THEN mnemonicAliases[parts[1]] \o SubSeq(line, Len(parts[1]) + 1, Len(line))
    ELSE line

\* C8: a program that uses an alias of the alias table (CO, AD, SU, MU, DV,
\* ND, OR, XR, SL, SR, CM, "$") assembles to the bytes of the same program
\* with the 16-bit mnemonic written in its place.
C8_AliasEquivalence ==
    Finished =>
        LET canonical == RawFn([k \in 1..Len(inLines) |-> Canonical(inLines[k])],
                               srcName, programOffset, incFiles, builtinConsts)
        IN /\ \A k \in 1..Len(inLines) :
                 SplitN2(Canonical(inLines[k]), " ")[1] \notin DOMAIN mnemonicAliases
           /\ Last = Returns(canonical.bin, canonical.err)

C8_Witness ==
    /\ Succeeded
    /\ inLines = <<AliasLine(<<"C","O">>), AliasLine(<<"$">>)>>
    /\ Last.bin = <<18, 49, 28, 22, 0, 0, 16, 0, 1, 0, 2, 0, 1, 0, 2>>

\* C10: once the label table is built, every label line followed by a
\* statement is in it with the address of the next statement, also when
\* several label lines precede one statement; no reference to such a label
\* ends in the undefined-label error.
C10_EveryLabelLineIsEntered ==
    /\ pc = "expandLabels" =>
          \A k \in LabelLineNums :
              Below(k) # {} =>
                  /\ rawSrcLines[k] \in DOMAIN labelAddresses
                  /\ labelAddresses[rawSrcLines[k]] = srcLines[Min(Below(k))].address
    /\ Finished /\ Last.err.kind = "UndefinedLabel" =>
          \A k \in LabelLineNums :
              Below(k) # {} => Last.err.text # rawSrcLines[k]

\* the characters between the quotes of a quoted string
Quoted(data) == SubSeq(data, 2, Len(data) - 1)

\* C11: a $8 directive whose data is a quoted string emits one byte per
\* character between the quotes, in order, each the character's code: n
\* characters give n bytes and move the address counter by n.
C11_StringBytes ==
    Succeeded =>
        \A i \in 1..Len(srcLines) :
            LET written == Original(srcLines[i]) IN
            written.mnemonic = <<"$","8">> /\ isDataString(written.data) =>
                /\ srcLines[i].bin
                     = [k \in 1..Len(Quoted(written.data)) |->
                          Ord(Quoted(written.data)[k])]
                /\ i < Len(srcLines) =>
                     srcLines[i + 1].address
                       = srcLines[i].address + Len(Quoted(written.data))

\* N when the data is "(N)" with a decimal N >= 1, else 0
NullCount(data) ==
    IF isDataNullRepeat(data) /\ Atoi(SubSeq(data, 2, Len(data) - 1)).ok
       /\ Atoi(SubSeq(data, 2, Len(data) - 1)).val >= 1
    THEN Atoi(SubSeq(data, 2, Len(data) - 1)).val
    ELSE 0

\* a line "$8 (N)" or "$16 (N)" with N >= 1
IsNullRepeatLine(line) ==
    LET parts == SplitN2(line, " ") IN
    /\ Len(parts) = 2
    /\ parts[1] \in {data8BitDirective, data16BitDirective}
    /\ NullCount(parts[2]) >= 1

\* C12: "(N)" is accepted on $8 as on $16: for N >= 1 a program of "(N)"
\* directives (and instructions without operands) assembles, no directive
\* is rejected by the validation of data, and each "$8 (N)" emits N null
\* bytes.
C12_NullRepeatOnBothWidths ==
    Finished /\ (\A k \in 1..Len(inLines) :
                     inLines[k] = LineNO \/ IsNullRepeatLine(inLines[k]))
        => /\ Succeeded
           /\ \A i \in 1..Len(srcLines) :
                  LET written == Original(srcLines[i]) IN
                  written.mnemonic = data8BitDirective =>
                      srcLines[i].bin = [k \in 1..NullCount(written.data) |-> 0]

\* a value of a directive of the given mnemonic is 1-2 (for $8) or 1-4
\* (for $16) hex digits
ValueOK(mnemonic, value) ==
    /\ Len(value) >= 1
    /\ Len(value) <= (IF mnemonic = data8BitDirective THEN 2 ELSE 4)
    /\ \A k \in 1..Len(value) : value[k] \in HexChars

BadData(l) ==
    /\ isValidDataDirective(l.mnemonic)
    /\ \E k \in 1..Len(Split(l.data, ",")) :
           ~ValueOK(l.mnemonic, Split(l.data, ",")[k])

\* C15: Raw succeeds only if every comma-separated value of every $8
\* directive is 1-2 hex digits and of every $16 directive 1-4 hex digits;
\* when the validation of data finds any other value (an empty payload or
\* an empty element included) Raw returns no bytes and the invalid-data
\* error with the width (8 or 16) and the line of the first such directive.
C15_DataValueWidths ==
    /\ [](Succeeded => \A i \in 1..Len(srcLines) : ~BadData(srcLines[i]))
    /\ [][pc = "validateDataDirectives" =>
            LET bad == {i \in 1..Len(srcLines) : BadData(srcLines[i])} IN
            IF bad = {} THEN pc' = "calcAddresses"
            ELSE /\ pc' = "idle"
                 /\ returned'[Len(returned')].bin = <<>>
                 /\ returned'[Len(returned')].err
                      = Err("InvalidDataWidth", srcLines[Min(bad)].lineNum + 1,
                            <<>>,
                            IF srcLines[Min(bad)].mnemonic = data8BitDirective
                            THEN 8 ELSE 16)]_vars

\* rejected for the empty element of "$8 1,,2" on the second line, after a
\* well-formed $16 directive
C15_Witness ==
    /\ Finished
    /\ Last.err.kind = "InvalidDataWidth" /\ Last.err.line = 2 /\ Last.err.n = 8
    /\ inLines = <<LineData16, LineData8Doubled>>

\* the files the top-level lines include, as a set of names
Included ==
    {TrimSpace(Tail(inLines[k])) \o IncExt :
        k \in {j \in 1..Len(inLines) :
                  inLines[j] # <<>> /\ inLines[j][1] = incToken}}

\* the constants of one file expanded against the built-in table alone
ExpandsAlone(lines) == expandConsts(cleanSrc(lines), builtinConsts).status = "ok"

ConstErrors == {"DuplicateConstant", "UndefinedConstant"}

\* C13: the built-in constant table is never modified, and every file (the
\* top-level file and each include) is expanded against a table that starts
\* from the built-ins only: Raw returns a constant error exactly when some
\* file, taken by itself, redefines or leaves undefined a name; a constant
\* of the top-level file or of an earlier include is neither visible in an
\* include nor a redefinition there.
C13_ConstantTablePerFile ==
    /\ defaultConsts = builtinConsts
    /\ Finished =>
          (Last.err.kind \in ConstErrors
             <=> ~(/\ ExpandsAlone(inLines)
                   /\ \A f \in Included : ExpandsAlone(incFiles[f])))

\* the line holds a bracketed token: a "[", at least one character, a "]"
HasToken(line) ==
    \E i, j \in 1..Len(line) : line[i] = "[" /\ line[j] = "]" /\ j > i + 1

\* the bracketed names a line refers to
Tokens(line) ==
    {SubSeq(line, p[1], p[2]) :
        p \in {q \in (1..Len(line)) \X (1..Len(line)) :
                  /\ line[q[1]] = "[" /\ line[q[2]] = "]" /\ q[2] > q[1] + 1
                  /\ \A k \in (q[1] + 1)..(q[2] - 1) : line[k] \notin {"[", "]"}}}

DefinitionLine(line) == line # <<>> /\ line[1] = "["
DefinedName(line) == SubSeq(line, 1, LastIndex(line, "]"))

\* the names the lines of a file define
DefinedIn(lines) ==
    {DefinedName(lines[k]) : k \in {j \in 1..Len(lines) : DefinitionLine(lines[j])}}

\* a name is defined twice in the file, or once more than the table has it
Redefines(lines, table) ==
    \E k \in 1..Len(lines) :
        /\ DefinitionLine(lines[k])
        /\ \/ DefinedName(lines[k]) \in DOMAIN table
           \/ \E j \in 1..(k - 1) :
                 DefinitionLine(lines[j]) /\ DefinedName(lines[j]) = DefinedName(lines[k])

\* the lines, not definitions, that hold a name neither the table nor the
\* file defines
Unresolved(lines, table) ==
    {k \in 1..Len(lines) :
        /\ ~DefinitionLine(lines[k])
        /\ Tokens(lines[k]) \ (DOMAIN table \cup DefinedIn(lines)) # {}}

\* C14: when the constants of the top-level file have been expanded, each
\* definition line (a line that starts with "[") is an empty line and no
\* line holds a bracketed token; the same is true of all lines once the
\* includes are expanded; and when a line that is not a definition still
\* holds a bracketed token after substitution, the step returns no bytes
\* and the undefined-constant error with the 1-based number of the first
\* such line.
C14_NoBracketsAfterExpansion ==
    /\ [](pc = "addSrcLabelNamespaces" =>
            /\ Len(rawSrcLines) = Len(inLines)
            /\ \A k \in 1..Len(rawSrcLines) :
                  /\ DefinitionLine(cleanSrc(inLines)[k]) => rawSrcLines[k] = <<>>
                  /\ ~HasToken(rawSrcLines[k]))
    /\ [](pc = "hasDupeSrcLabels" =>
            \A k \in 1..Len(rawSrcLines) : ~HasToken(rawSrcLines[k]))
    /\ [][pc = "expandConsts" /\ ~Redefines(rawSrcLines, defaultConsts) =>
            IF Unresolved(rawSrcLines, defaultConsts) = {}
            THEN pc' = "addSrcLabelNamespaces"
            ELSE /\ pc' = "idle"
                 /\ returned'[Len(returned')].bin = <<>>
                 /\ returned'[Len(returned')].err.kind = "UndefinedConstant"
                 /\ returned'[Len(returned')].err.line
                      = Min(Unresolved(rawSrcLines, defaultConsts))]_vars

\* a definition, a line that uses it, and a line with an undefined name:
\* the error names line 3
C14_WitnessUndefined ==
    /\ Finished
    /\ inLines = <<LineDefFoo, LineData16Foo, LineData16Bar>>
    /\ Last.err.kind = "UndefinedConstant" /\ Last.err.line = 3

\* a definition line emptied and its name substituted, includes expanded
C14_Witness ==
    /\ pc = "hasDupeSrcLabels"
    /\ inLines = <<LineDefFoo, LineData16Foo, LineIncUses>>
    /\ rawSrcLines = <<<<>>, <<"$","1","6"," ","1","A">>, <<"$","1","6"," ","1","A">>>>

\* the line with every tab written as a space
TabsAsSpaces(line) ==
    [k \in 1..Len(line) |-> IF line[k] = "\t" THEN " " ELSE line[k]]

\* no white space at either end, and every run of white space is one space
Normalised(line) ==
    /\ \A k \in 1..Len(line) : line[k] \in SpaceChars => line[k] = " "
    /\ line # <<>> => line[1] # " " /\ line[Len(line)] # " "
    /\ \A k \in 1..(Len(line) - 1) : ~(line[k] = " " /\ line[k + 1] = " ")

\* C16: after cleanSrc every line is without leading and trailing white
\* space and every run of white space of any length and kind (space or
\* tab) is one space, so a program with tabs assembles as the program with
\* a space in place of each tab.
C16_WhitespaceNormalised ==
    /\ pc = "expandConsts" =>
          \A k \in 1..Len(rawSrcLines) : Normalised(rawSrcLines[k])
    /\ Finished =>
          LET spaced == RawFn([k \in 1..Len(inLines) |-> TabsAsSpaces(inLines[k])],
                              srcName, programOffset, incFiles, builtinConsts)
          IN Last = Returns(spaced.bin, spaced.err)

\* the selector of the six pairs of operand types
Selector(op1Type, op2Type) ==
    CASE <<op1Type, op2Type>> = <<literalOp, addressOp>> -> 0
      [] <<op1Type, op2Type>> = <<literalOp, pointerOp>> -> 1
      [] <<op1Type, op2Type>> = <<addressOp, addressOp>> -> 2
      [] <<op1Type, op2Type>> = <<addressOp, pointerOp>> -> 3
      [] <<op1Type, op2Type>> = <<pointerOp, addressOp>> -> 4
      [] <<op1Type, op2Type>> = <<pointerOp, pointerOp>> -> 5

LegalPairs ==
    {<<literalOp, addressOp>>, <<literalOp, pointerOp>>, <<addressOp, addressOp>>,
     <<addressOp, pointerOp>>, <<pointerOp, addressOp>>, <<pointerOp, pointerOp>>}

\* C17: the first byte of every instruction is base opcode * 8 + selector
\* with no bit lost (the base opcode is at most 1F and is the byte shifted
\* right by three), the selector of a two-operand instruction being 0..5
\* for the six pairs of operand types, and 0, 2 or 4 operand bytes follow
\* for an instruction length of 1, 3 or 5.
C17_OpcodeByte ==
    Succeeded =>
        \A i \in 1..Len(srcLines) :
            Instr(srcLines[i]) =>
                LET l == srcLines[i]
                    m == mnemonics[l.mnemonic]
                IN /\ m.opcode <= 31
                   /\ l.bin # <<>>
                   /\ l.bin[1] \in 0..255
                   /\ l.bin[1] \div 8 = m.opcode
                   /\ m.numOps = 2 /\ <<l.op1Type, l.op2Type>> \in LegalPairs =>
                         l.bin[1] = m.opcode * 8 + Selector(l.op1Type, l.op2Type)
                   /\ m.instrLength \in {1, 3, 5}
                   /\ Len(l.bin) = m.instrLength
                   /\ Len(Tail(l.bin)) = (CASE m.instrLength = 1 -> 0
                                            [] m.instrLength = 3 -> 2
                                            [] m.instrLength = 5 -> 4)

\* JS, the highest two-operand opcode, with two pointers: 1E * 8 + 5
C17_Witness ==
    /\ Succeeded
    /\ inLines = <<TwoOpLine(<<"J","S">>, pointerOp, pointerOp)>>
    /\ srcLines[1].bin = <<245, 0, 26, 0, 43>>

\* C18: no program that passes every validation reaches the encoder with a
\* two-operand instruction whose second operand is a literal (the pair
\* literal, literal included): "CO $1,$2" yields no binary.
C18_NoLiteralDestination ==
    pc \in {"buildBinSrcLines", "buildBin"} \/ Succeeded =>
        \A i \in 1..Len(srcLines) :
            Instr(srcLines[i]) /\ mnemonics[srcLines[i].mnemonic].numOps = 2 =>
                srcLines[i].op2Type # literalOp

\* the stages of Raw in the order they run
StageOrder ==
    <<"cleanSrc", "expandConsts", "addSrcLabelNamespaces", "addIncludes",
      "hasDupeSrcLabels", "buildStructSrc", "unaliasMnemonics",
      "convDataStringsToHex", "expandDataNullRepeats", "validateMnemonics",
      "validateDataDirectives", "calcAddresses", "getLabelAddresses",
      "expandLabels", "validateOps", "buildBinSrcLines", "buildBin">>

StageIndex(stage) == CHOOSE k \in 1..Len(StageOrder) : StageOrder[k] = stage

\* the errors a stage can return
StageErrors(stage) ==
    CASE stage = "expandConsts" -> {"DuplicateConstant", "UndefinedConstant"}
      [] stage = "addIncludes" ->
            {"IO", "NestedInclude", "DuplicateConstant", "UndefinedConstant"}
      [] stage = "hasDupeSrcLabels" -> {"DuplicateLabel"}
      [] stage = "expandDataNullRepeats" -> {"InvalidNullRepeat"}
      [] stage = "validateMnemonics" -> {"UnknownMnemonic"}
      [] stage = "validateDataDirectives" -> {"InvalidDataWidth"}
      [] stage = "calcAddresses" -> {"AddressOutOfRange"}
      [] stage = "expandLabels" -> {"UndefinedLabel"}
      [] stage = "validateOps" -> {"WrongOperandArity", "InvalidOperand"}
      [] OTHER -> {}

UnknownMnemonic(l) == l.mnemonic \notin DOMAIN mnemonics

\* an operand names a label that no statement carries
UndefinedLabel(l) ==
    \E op \in {l.op1, l.op2} :
        getOpLabel(op) # <<>> /\ getOpLabel(op) \notin DOMAIN labelAddresses

\* an instruction with the wrong operands set, or an operand that is not
\* 1-4 hex digits
BadOperands(l) ==
    /\ Instr(l)
    /\ \/ ~ArityMatches(l)
       \/ \E op \in {l.op1, l.op2} \ {<<>>} : ~ValueOK(data16BitDirective, op)

\* the statements of the lines before line n, at line n
Before(n) == {i \in 1..Len(srcLines) : srcLines[i].lineNum + 1 < n}
At(n) == {i \in 1..Len(srcLines) : srcLines[i].lineNum + 1 = n}

\* the error is of the first statement that fails the stage that returned
\* it, and no statement fails a stage before that one
FirstOffence(err) ==
    LET all == 1..Len(srcLines)
        before == Before(err.line)
        at == At(err.line)
    IN CASE err.kind = "UnknownMnemonic" ->
              /\ \E i \in at : UnknownMnemonic(srcLines[i])
              /\ \A i \in before : ~UnknownMnemonic(srcLines[i])
         [] err.kind = "InvalidDataWidth" ->
              /\ \A i \in all : ~UnknownMnemonic(srcLines[i])
              /\ \E i \in at : BadData(srcLines[i])
              /\ \A i \in before : ~BadData(srcLines[i])
         [] err.kind = "AddressOutOfRange" ->
              \A i \in all : ~UnknownMnemonic(srcLines[i]) /\ ~BadData(srcLines[i])
         [] err.kind = "UndefinedLabel" ->
              /\ \A i \in all : ~UnknownMnemonic(srcLines[i]) /\ ~BadData(srcLines[i])
              /\ \E i \in at : UndefinedLabel(srcLines[i])
              /\ \A i \in before : ~UndefinedLabel(srcLines[i])
         [] err.kind \in {"WrongOperandArity", "InvalidOperand"} ->
              /\ \A i \in all : /\ ~UnknownMnemonic(srcLines[i])
                                /\ ~BadData(srcLines[i])
                                /\ ~UndefinedLabel(srcLines[i])
              /\ \E i \in at : BadOperands(srcLines[i])
              /\ \A i \in before : ~BadOperands(srcLines[i])
         [] OTHER -> srcLines = <<>> \/ err.kind = "InvalidNullRepeat"

\* the lines that define a name the table or an earlier line has
RedefinitionLines(lines, table) ==
    {k \in 1..Len(lines) :
        /\ DefinitionLine(lines[k])
        /\ \/ DefinedName(lines[k]) \in DOMAIN table
           \/ \E j \in 1..(k - 1) :
                 DefinitionLine(lines[j]) /\ DefinedName(lines[j]) = DefinedName(lines[k])}

\* constant expansion reads the definitions of all lines, then substitutes:
\* the first redefinition is reported before any undefined name
ConstantOffenceTwoPasses(err) ==
    LET lines == cleanSrc(inLines)
        redefined == RedefinitionLines(lines, builtinConsts)
        unresolved == Unresolved(lines, builtinConsts)
    IN /\ err.kind = "DuplicateConstant" => err.line = Min(redefined)
       /\ err.kind = "UndefinedConstant" =>
             redefined = {} /\ err.line = Min(unresolved)

\* constant expansion reports the first line, in source order, that
\* redefines a name or uses an undefined one
ConstantOffenceInSourceOrder(err) ==
    LET lines == cleanSrc(inLines)
        offending == RedefinitionLines(lines, builtinConsts)
                       \cup Unresolved(lines, builtinConsts)
    IN err.kind \in ConstErrors => err.line = Min(offending)

\* a stage hands over to the stage after it, or the call returns: bytes
\* from the last stage, an error of the stage and no bytes from any other
NextStageOrReturn ==
    \/ /\ pc # "buildBin"
       /\ pc' = StageOrder[StageIndex(pc) + 1]
       /\ returned' = returned
    \/ /\ pc' = "idle"
       /\ Len(returned') = Len(returned) + 1
       /\ IF pc = "buildBin"
          THEN returned'[Len(returned')].err = NoErr
          ELSE /\ returned'[Len(returned')].bin = <<>>
               /\ returned'[Len(returned')].err.kind \in StageErrors(pc)

\* C19 (as amended): the stages run in one fixed order and a stage is
\* entered only when the one before it passed; a call that fails returns
\* no bytes and the error of the stage it stopped in, which is the first
\* stage that some statement fails, and names the first statement in
\* source order that fails it, except that constant expansion reports a
\* redefinition on any line before an undefined name on any line.
\* "NO undefined_label" fails with the undefined-label error, not an arity
\* error; an unknown mnemonic on line 2 is reported, not the malformed data
\* on line 1.
C19_FailFastStageOrder ==
    /\ [][(pc \in Range(StageOrder)) => NextStageOrReturn]_vars
    /\ [](Finished /\ Last.err # NoErr =>
            FirstOffence(Last.err) /\ ConstantOffenceTwoPasses(Last.err))
    /\ [](Finished /\ inLines = <<LineNOUndefined>> /\ programOffset = 0 =>
            Last.err.kind = "UndefinedLabel" /\ Last.err.line = 1)
    /\ [](Finished /\ inLines = <<LineData8Wide, LineXX>> =>
            Last.err.kind = "UnknownMnemonic" /\ Last.err.line = 2)

\* malformed data on line 1, unknown mnemonics on lines 2 and 3: the error
\* is the unknown mnemonic of line 2
C19_Witness ==
    /\ Finished
    /\ inLines = <<LineData8Wide, LineXX, LineXX>>
    /\ Last.err.kind = "UnknownMnemonic" /\ Last.err.line = 2

\* C19 (as stated): the error returned is that of the first stage that
\* fails and, within that stage, constant expansion included, that of the
\* first offending line in source order.
C19_FirstOffenceInSourceOrder ==
    Finished /\ Last.err # NoErr =>
        FirstOffence(Last.err) /\ ConstantOffenceInSourceOrder(Last.err)

\* the numbers an error message carries
NumbersOf(err) == {err.line, err.n}

\* C20: the duplicate-label error carries the label text and the 1-based
\* line numbers, in the expanded source, of both occurrences: the earlier
\* one and the later one.
C20_BothOccurrencesReported ==
    Finished /\ Last.err.kind = "DuplicateLabel" =>
        \E d \in DupeLabelLines(rawSrcLines) :
            /\ Last.err.text = rawSrcLines[d[1]]
            /\ {d[1], d[2]} \subseteq NumbersOf(Last.err)

\* the entries "0000" among the values of a data text
NullEntries(data) ==
    IF data = <<>> THEN 0
    ELSE Cardinality({k \in 1..Len(Split(data, ",")) :
                         Split(data, ",")[k] = <<"0","0","0","0">>})

\* C21: the number of entries "0000" that "(N)" is replaced by is N for
\* every N >= 0: "(0)" expands to no entry at all.
C21_NullRepeatCount ==
    pc \in AfterRepeats \/ Succeeded =>
        \A i \in 1..Len(srcLines) :
            LET written == Original(srcLines[i])
                count == Atoi(SubSeq(written.data, 2, Len(written.data) - 1))
            IN isValidDataDirective(written.mnemonic)
               /\ isDataNullRepeat(written.data) /\ count.ok /\ count.val >= 0
               => NullEntries(srcLines[i].data) = count.val

\* the file name up to its first "."
NamespaceOf(name) ==
    IF FirstIndex(name, ".") = 0 THEN name
    ELSE SubSeq(name, 1, FirstIndex(name, ".") - 1)

\* the line cut into its maximal runs of label characters and of others
RECURSIVE Runs(_)
Runs(line) ==
    IF line = <<>> THEN <<>>
    ELSE LET e == IF line[1] \in LabelChars
                  THEN RunEnd(line, 1, LabelChars)
                  ELSE RunEnd(line, 1, Range(line) \ LabelChars)
         IN <<SubSeq(line, 1, e)>> \o Runs(SubSeq(line, e + 1, Len(line)))

\* a token of five or more label characters without a "."
Unqualified(run) ==
    Len(run) >= 5 /\ run[1] \in LabelChars /\ "." \notin Range(run)

RECURSIVE Concat(_)
Concat(parts) == IF parts = <<>> THEN <<>> ELSE Head(parts) \o Concat(Tail(parts))

\* the line with every unqualified token prefixed; include and data
\* directives as they are
Qualified(line, namespace) ==
    IF line = <<>> \/ line[1] \in {"<", "$"} THEN line
    ELSE Concat([k \in 1..Len(Runs(line)) |->
                    IF Unqualified(Runs(line)[k])
                    THEN namespace \o <<".">> \o Runs(line)[k]
                    ELSE Runs(line)[k]])

QualifiedLines(lines, name) ==
    [k \in 1..Len(lines) |-> Qualified(lines[k], NamespaceOf(name))]

\* the top-level lines with each include directive replaced by the lines
\* of its file, qualified with the namespace of that file
RECURSIVE WithIncludes(_)
WithIncludes(lines) ==
    IF lines = <<>> THEN <<>>
    ELSE (IF Head(lines) # <<>> /\ Head(lines)[1] = "<"
          THEN QualifiedLines(incFiles[Tail(Head(lines)) \o IncExt],
                              Tail(Head(lines)) \o IncExt)
          ELSE <<Head(lines)>>) \o WithIncludes(Tail(lines))

\* C22: namespacing prefixes each token of five or more word or dot
\* characters that holds no "." with the file name up to its first "." and
\* a ".", in every line that is neither an include nor a data directive,
\* and leaves qualified tokens alone, so that doing it twice changes
\* nothing more; the lines of an include get the namespace of the include
\* file; and in a successful run an operand that names a label, written
\* unqualified in the label's file or qualified anywhere, holds the address
\* of the statement that carries the label.
C22_NamespaceQualification ==
    /\ [][(pc = "addSrcLabelNamespaces") =>
            /\ rawSrcLines' = QualifiedLines(rawSrcLines, srcName)
            /\ addSrcLabelNamespaces(rawSrcLines', srcName) = rawSrcLines']_vars
    /\ [][(pc = "addIncludes" /\ pc' = "hasDupeSrcLabels") =>
            rawSrcLines' = WithIncludes(rawSrcLines)]_vars
    /\ [](Succeeded =>
            \A i, j \in 1..Len(srcLines) :
                srcLines[j].label # <<>>
                /\ Original(srcLines[i]).op1 = srcLines[j].label
                => IsHex4Upper(srcLines[i].op1, srcLines[j].address))

\* the label start of the include is reached from the top-level file as
\* nslib.start and from the include itself as start; the top-level start
\* is another label
C22_Witness ==
    /\ Succeeded
    /\ inLines = <<LineIncNs, LineEqNsStart, LineStart>>
    /\ rawSrcLines = <<<<"n","s","l","i","b",".","s","t","a","r","t">>, <<"E","Q"," ","n","s","l","i","b",".","s","t","a","r","t">>, <<"E","Q"," ","n","s","l","i","b",".","s","t","a","r","t">>,
                       <<"m","a","i","n",".","s","t","a","r","t">>>>
    /\ srcLines[1].op1 = <<"0","A","F","E">> /\ srcLines[2].op1 = <<"0","A","F","E">>

\* the line with the mnemonic SR16 written as CM8
AsCM8(line) ==
    LET parts == SplitN2(line, " ") IN
    IF parts[1] = <<"S","R","1","6">>
    THEN <<"C","M","8">> \o SubSeq(line, Len(parts[1]) + 1, Len(line))
    ELSE line

\* C23: SR16 and CM8 have the same base opcode 15, so a program with SR16
\* assembles to the bytes of the same program with CM8 in its place; any
\* other two instruction mnemonics have different base opcodes and give
\* different opcode bytes for the same operand types.
C23_OpcodeCollision ==
    /\ mnemonics[<<"S","R","1","6">>].opcode = 21 /\ mnemonics[<<"C","M","8">>].opcode = 21
    /\ \A m1, m2 \in Instructions :
           m1 # m2 /\ mnemonics[m1].opcode = mnemonics[m2].opcode
           => {m1, m2} = {<<"S","R","1","6">>, <<"C","M","8">>}
    /\ Finished =>
           LET other == RawFn([k \in 1..Len(inLines) |-> AsCM8(inLines[k])],
                              srcName, programOffset, incFiles, builtinConsts)
           IN Last = Returns(other.bin, other.err)
    /\ Succeeded =>
           \A i \in 1..Len(srcLines) : \A m \in Instructions :
               /\ Instr(srcLines[i])
               /\ m # srcLines[i].mnemonic
               /\ {m, srcLines[i].mnemonic} # {<<"S","R","1","6">>, <<"C","M","8">>}
               => buildOpcode([srcLines[i] EXCEPT !.mnemonic = m, !.bin = <<>>]).bin[1]
                    # srcLines[i].bin[1]

\* SR16 with an address and a pointer: the opcode byte 15 * 8 + 3 that CM8
\* gives too
C23_Witness ==
    /\ Succeeded
    /\ inLines = <<TwoOpLine(<<"S","R","1","6">>, addressOp, pointerOp)>>
    /\ Last.bin = <<18, 49, 28, 22, 0, 0, 171, 0, 26, 0, 43>>
    /\ RawFn(<<TwoOpLine(<<"C","M","8">>, addressOp, pointerOp)>>, srcName, programOffset,
             incFiles, builtinConsts).bin = Last.bin

\* the address counter after statement i of a finished program
CounterAfter(i) == srcLines[i].address + stmtLength(srcLines[i])

\* C24: in every successful run each statement emits as many bytes as the
\* address counter advanced for it (an instruction 1, 3 or 5, $8 one per
\* value, $16 two per value), so the bytes of the statement at address a
\* start at index 6 + (a - load offset) of the image, counted from 0, and
\* the image is 6 + the final counter - the load offset bytes long.
C24_ResolverEncoderAgreement ==
    Succeeded =>
        LET bin == Last.bin
            n == Len(srcLines)
        IN /\ \A i \in 1..n :
                 LET l == srcLines[i]
                     values == Len(Split(l.data, dataDlm))
                     start == 6 + (l.address - programOffset)
                 IN /\ l.address = IF i = 1 THEN programOffset ELSE CounterAfter(i - 1)
                    /\ Len(l.bin) = CounterAfter(i) - l.address
                    /\ Len(l.bin) = CASE l.mnemonic = data8BitDirective -> values
                                      [] l.mnemonic = data16BitDirective -> 2 * values
                                      [] OTHER -> mnemonics[l.mnemonic].instrLength
                    /\ Instr(l) => Len(l.bin) \in {1, 3, 5}
                    /\ SubSeq(bin, start + 1, start + Len(l.bin)) = l.bin
           /\ Len(bin) = 6 + (IF n = 0 THEN programOffset ELSE CounterAfter(n))
                           - programOffset

\* a five-byte instruction, two 16-bit values and a three-byte instruction
\* loaded at 1234 (hex): addresses 1234, 1239 and 123D, final counter 1240
C24_Witness ==
    /\ Succeeded
    /\ programOffset = 4660
    /\ inLines = <<LineCoLit, LineData16, LineEqPtr>>
    /\ [i \in 1..3 |-> srcLines[i].address] = <<4660, 4665, 4669>>
    /\ CounterAfter(3) = 4672
    /\ Len(Last.bin) = 18
    /\ SubSeq(Last.bin, 12, 15) = <<0, 1, 171, 205>>

OneOperand == {m \in Instructions : mnemonics[m].numOps = 1}

\* the line of a one-operand instruction with the sigil of its operand left out
WithoutSigil(line) ==
    LET parts == SplitN2(line, " ") IN
    IF /\ parts[1] \in OneOperand
       /\ Len(line) > Len(parts[1]) + 1
       /\ line[Len(parts[1]) + 2] \in {"$", "*"}
    THEN SubSeq(line, 1, Len(parts[1]) + 1) \o SubSeq(line, Len(parts[1]) + 3, Len(line))
    ELSE line

\* C25: the one-operand instructions are EQ, NE, LT, GT, EL, EG and RT; in
\* every successful run such an instruction has a second operand of type
\* invalid, the selector 0 and the opcode byte base opcode * 8, and the run
\* returns the bytes of the same program with the operand's sigil left out.
C25_OneOperandSelector ==
    /\ OneOperand = {<<"E","Q">>, <<"N","E">>, <<"L","T">>, <<"G","T">>, <<"E","L">>, <<"E","G">>, <<"R","T">>}
    /\ Succeeded =>
           \A i \in 1..Len(srcLines) :
               srcLines[i].mnemonic \in OneOperand =>
                   /\ srcLines[i].op2Type = invalidOp
                   /\ opTypeSelector(srcLines[i].op1Type, srcLines[i].op2Type) = 0
                   /\ srcLines[i].bin[1] = mnemonics[srcLines[i].mnemonic].opcode * 8
    /\ Finished =>
           LET other == RawFn([k \in 1..Len(inLines) |-> WithoutSigil(inLines[k])],
                              srcName, programOffset, incFiles, builtinConsts)
           IN Last = Returns(other.bin, other.err)

====
